---- MODULE Spec2Model ----
(***************************************************************************)
(* A model of the highlight pipeline of gemini-clip-concat:                *)
(*   - VideoProcessor.merge_overlapping_clips  (utils/video_processor.py)  *)
(*   - VideoQueue.add_video / process_all_queued (utils/video_queue.py)    *)
(*   - KillProcessor.process_single_video      (kill_processor.py)         *)
(*   - GameProcessMonitor                      (utils/process_monitor.py)  *)
(*   - KillProcessor.start_watching and process_single_video_sync          *)
(*   - KillProcessor.process_multiple_videos                               *)
(*   - analyze_video's update of the store     (utils/video_analysis.py)   *)
(*   - VideoProcessor.create_compilation       (utils/video_processor.py)  *)
(*   - GameProcessMonitor.detect_active_game over a process listing        *)
(*   - the monitor thread of GameProcessMonitor, step by step              *)
(*   - VideoFileHandler._handle_video_file     (utils/file_watcher.py)     *)
(* Each part has its own specification (SpecMerge, SpecQueue, Spec,        *)
(* SpecMonitor, SpecWatch, SpecBatch, SpecStore, SpecComp, SpecDetect,     *)
(* SpecLoop, SpecHandler) over its own variables; the variables of the     *)
(* other parts stay at their initial value. SpecLoop follows the fields    *)
(* of the monitor with the steps of its thread told apart.                 *)
(***************************************************************************)
EXTENDS Integers, Sequences, FiniteSets, Bags, TLC

VARIABLES
    \* ---- merge_overlapping_clips ----
    highlights_in,      \* the argument `highlights`
    merged,             \* the list returned by merge_overlapping_clips(highlights_in)
    remerged,           \* the list returned by merging `merged` again
    mpc                 \* "input" | "merged" | "remerged"

VARIABLES
    \* ---- VideoQueue ----
    queue,              \* self.queue, left end first
    qpc,                \* "idle" | "draining": where process_all_queued stands
    results,            \* local `results` of process_all_queued
    processed_count,    \* local `processed_count`
    queue_size,         \* local `queue_size`
    returned,           \* what the most recent call returned
    last_call,          \* "none" | "add_video" | "process_all_queued"
    added,              \* the paths given to add_video since the last drain, in call order
    snapshot,           \* the queue as it was when the most recent call began
    calls,              \* the paths processor_callback was invoked on by the most recent drain
    outcomes            \* what each of these invocations did

VARIABLES
    \* ---- KillProcessor.process_single_video ----
    reprocess_analyzed_videos,  \* config.reprocess_analyzed_videos
    watch_mode_csv_path,        \* TRUE when self.watch_mode_csv_path is set
    processed_videos,           \* self.processed_videos
    kills_json,                 \* the source videos that have a record in kills.json
    watch_mode_token_data,      \* the rows appended to the token CSV, <<video, status>>
    pc,                         \* "idle" | "loop" | "break" | "compile" | "except" | "done"
    video,                      \* the argument video_path
    retry_count,                \* local retry_count
    current_temperature,        \* local current_temperature, in tenths
    highlights,                 \* local highlights
    token_usage,                \* local token_usage
    result,                     \* the value returned to the caller
    attempts,                   \* analyze_video calls made by this call
    sleeps,                     \* asyncio.sleep(retry_delay_seconds) calls made by this call
    last_attempt,               \* retry count, temperature and outcome of the latest attempt
    compile_input,              \* the list handed to process_video_highlights
    segments,                   \* the list handed to create_compilation
    error_logged,               \* the handler of the whole call ran ("Error processing video")
    exception,                  \* the exception on its way to the handler of the whole call, "None" if none
    make_short,                 \* config.make_short
    short,                      \* what create_short_from_compilation did: "not_run" | "created" | "None" | "raise"
    compile_failed,             \* the videos whose compilation failed after an analysis with highlights
    runs                        \* process_single_video calls made so far

VARIABLES
    \* ---- GameProcessMonitor and watch mode ----
    running,                    \* the game processes running on the host (psutil)
    monitoring,                 \* monitor.monitoring: the polling thread is running
    current_game_type,          \* monitor.current_game_type
    detected_processes,         \* monitor.detected_processes
    config_game_type,           \* config._config['game_type']
    polls,                      \* what detect_active_game returned, check by check
    monitor_log,                \* the lines the monitor logged, check by check
    fired,                      \* the calls made to on_game_start / on_game_stop
    watching,                   \* start_watching has set watch mode up
    process_monitor,            \* KillProcessor.process_monitor
    queue_when_gaming,          \* config.queue_when_gaming
    steady_game,                \* a game ran when watch mode began and no game process changed since
    handled                     \* what process_single_video_sync did with each video, in order

VARIABLES
    \* ---- KillProcessor.process_multiple_videos ----
    video_paths,                \* the argument video_paths
    batch_size,                 \* config.batch_size
    batch_start,                \* the loop variable i of `for i in range(0, len(video_paths), batch_size)`
    task,                       \* per position of video_paths: "waiting", "in_flight", or how its
                                \* process_single_video settled: "path", "None", "raise"
    batch_output,               \* local `results`
    batch_returned,             \* what process_multiple_videos returned
    bpc                         \* "idle" | "loop" | "gathering" | "returned" | "raised"

mergeVars == <<highlights_in, merged, remerged, mpc>>

batchVars == <<video_paths, batch_size, batch_start, task, batch_output, batch_returned, bpc>>

monitorVars == <<running, monitoring, current_game_type, detected_processes,
                 config_game_type, polls, monitor_log, fired>>

watchVars == <<watching, process_monitor, queue_when_gaming, steady_game, handled>>

queueVars == <<queue, qpc, results, processed_count, queue_size, returned,
               last_call, added, snapshot, calls, outcomes>>

procVars == <<reprocess_analyzed_videos, watch_mode_csv_path, processed_videos,
              kills_json, watch_mode_token_data, pc, video, retry_count,
              current_temperature, highlights, token_usage, result, attempts, sleeps,
              last_attempt, compile_input, segments, error_logged,
              exception, make_short, short, compile_failed, runs>>

VARIABLES
    \* ---- the highlights store under concurrent analyze_video calls ----
    output_file,                \* the highlights of kills.json, <<source_video, analysis>>
    existing_data,              \* per analysis: the local existing_data["highlights"]
    store_pc,                   \* per analysis: "idle" | "analyzing" | "read" | "done"
    source_video,               \* per analysis: the argument video_path
    thread,                     \* per analysis: the thread whose event loop runs it
    processed_highlights        \* per analysis: "none" | "highlights" | "empty" | "raise"

storeVars == <<output_file, existing_data, store_pc, source_video, thread,
               processed_highlights>>

VARIABLES
    \* ---- VideoProcessor.create_compilation ----
    nvenc_available,            \* self._nvenc_available: "None" | "True" | "False"
    cc_highlights,              \* the argument highlights of the latest call
    commands,                   \* the subprocess.run commands of the latest call, in order
    cc_result,                  \* "None" | "path" | "ValueError" | "CalledProcessError"
    compilations                \* create_compilation calls made so far

compVars == <<nvenc_available, cc_highlights, commands, cc_result, compilations>>

VARIABLES
    \* ---- GameProcessMonitor.detect_active_game over a process listing ----
    process_list,               \* the names psutil.process_iter yields, in its order
    scan_completed,             \* the scan reached the end of the listing without an error
    scanned_games,              \* the keys of the dict get_running_game_processes returned
    active_game                 \* what detect_active_game returned, "unset" before the call

detectVars == <<process_list, scan_completed, scanned_games, active_game>>

VARIABLES
    \* ---- the monitor thread of GameProcessMonitor, step by step ----
    stop_event,                 \* self.stop_event is set
    monitor_thread,             \* self.monitor_thread: 0 for None, or the thread
    loop_pc,                    \* per thread: "unstarted" | "waiting" | "polling" | "scanned" | "exited"
    loop_detected,              \* per thread: the local detected_game_type of monitor_loop
    caller_pc,                  \* the caller of start/stop: "ready" | "joining"
    start_calls,                \* start_monitoring calls made so far
    stopped,                    \* stop_monitoring has returned and start_monitoring was not called since
    after_stop                  \* what a loop did while stopped: "poll", "update"

loopVars == <<stop_event, monitor_thread, loop_pc, loop_detected, caller_pc,
              start_calls, stopped, after_stop>>

VARIABLES
    \* ---- VideoFileHandler: the observer thread and the retry threads ----
    mtime,                      \* per path: os.path.getmtime of the file
    settled,                    \* per path: stability_window seconds have passed since mtime
    events,                     \* the created/modified events waiting for the observer thread
    last_modified,              \* self.last_modified, NoMtime for a path that is not a key
    processing_files,           \* self.processing_files
    pending_files,              \* self.pending_files
    handler_pc,                 \* per thread: where it is in _handle_video_file
    handler_path,               \* per thread: its file_path
    current_mtime,              \* per thread: the local current_mtime of is_file_stable
    last_mtime                  \* per thread: the local last_mtime of is_file_stable

handlerVars == <<mtime, settled, events, last_modified, processing_files, pending_files,
                 handler_pc, handler_path, current_mtime, last_mtime>>

vars == <<mergeVars, queueVars, procVars, monitorVars, watchVars, batchVars, storeVars, compVars, detectVars, loopVars, handlerVars>>

----------------------------------------------------------------------------
(* Bounds and value domains *)

\* longest highlight list handed to merge_overlapping_clips
MaxHighlights == 3

\* most entries the queue holds at once
MaxQueue == 3

\* analyze_video calls one process_single_video call is followed for
MaxAttempts == 6

\* process_single_video calls one behaviour is followed for
MaxRuns == 2

\* config.max_zero_highlight_retries (the default)
max_zero_highlight_retries == 3

\* config.temperature (the default 1.0), in tenths
BaseTemperature == 10

\* `current_temperature += 0.1`, in tenths
TemperatureStep == 1

\* the videos handed to process_single_video
Videos == {"v1.mp4", "v2.mp4"}

\* the paths handed to add_video; Path("").name is "", so "" is queued like any other
VideoPaths == {"a", "b", "c", ""}

\* what processor_callback does with one path: return a compilation path,
\* return None, return an empty string, or raise
CallbackOutcomes == {"path", "None", "empty", "raise"}

\* Python values a video is processed to, as tuples: a compilation path, "" and None
CompilationOf(video_path) == <<"compilation", video_path>>

EmptyString == <<>>

NoneValue == <<[none |-> TRUE]>>

\* checks of the running processes one monitor is followed for
MaxPolls == 5

\* GAME_PROCESS_MAP, in its order: two of its process names and their game types
GAME_PROCESS_MAP ==
    << [process |-> "cs2.exe", game_type |-> "kills"],
       [process |-> "overwatch.exe", game_type |-> "overwatch2"] >>

GameProcesses == {GAME_PROCESS_MAP[i].process : i \in 1..Len(GAME_PROCESS_MAP)}

\* the Optional[str] None of current_game_type and detect_active_game
NoGame == "None"

\* config.game_type before any game was detected (the default)
DefaultGameType == "cs2"

\* longest list handed to process_multiple_videos
MaxBatchVideos == 4

\* largest config.batch_size tried (the default is 25)
MaxBatchSize == 2

\* how the process_single_video of one video settles inside asyncio.gather:
\* with a compilation path, with None, or with an exception
TaskOutcomes == {"path", "None", "raise"}

\* videos one watch session is followed for
MaxHandled == 3

\* the second values a highlight bound is drawn from
Times == {0, 10, 15, 20, 25, 30, 40}

LastTime == CHOOSE t \in Times : \A u \in Times : u <= t

\* every whole second of the recording
TimePoints == 0..LastTime

\* a highlight dict, reduced to the two keys merge_overlapping_clips reads
Highlight == [timestamp_start_seconds : Times, timestamp_end_seconds : Times]

WellFormed(h) == h.timestamp_end_seconds > h.timestamp_start_seconds

WellFormedHighlights == {h \in Highlight : WellFormed(h)}

\* the schema of the analysis response asks only for integers >= 0, so a
\* highlight may come back empty or reversed; a few of these are merged as well
MalformedTimes == {10, 20}

MalformedHighlights ==
    {h \in [timestamp_start_seconds : MalformedTimes, timestamp_end_seconds : MalformedTimes] :
        ~WellFormed(h)}

MergeInputs == WellFormedHighlights \cup MalformedHighlights

SeqsUpTo(S, n) == UNION {[1..k -> S] : k \in 0..n}

Max(a, b) == IF a >= b THEN a ELSE b

H(s, e) == [timestamp_start_seconds |-> s, timestamp_end_seconds |-> e]

----------------------------------------------------------------------------
(* VideoProcessor.merge_overlapping_clips *)

\* sorted(): stable insertion of h into a list already sorted by start
InsertByStart(h, s) ==
    LET k == Cardinality({i \in 1..Len(s) :
                 s[i].timestamp_start_seconds <= h.timestamp_start_seconds})
    IN  SubSeq(s, 1, k) \o <<h>> \o SubSeq(s, k + 1, Len(s))

RECURSIVE sorted_highlights(_)
sorted_highlights(hs) ==
    IF hs = <<>> THEN <<>>
    ELSE InsertByStart(hs[Len(hs)], sorted_highlights(SubSeq(hs, 1, Len(hs) - 1)))

\* variant of the overlap test with <: touching clips would stay apart
OverlapsStrictly(highlight, current) ==
    highlight.timestamp_start_seconds < current.timestamp_end_seconds

\* the overlap test of the loop: touching counts as overlap
Overlaps(highlight, current) ==
    highlight.timestamp_start_seconds <= current.timestamp_end_seconds

\* variant of the merge branch that takes the next end without max()
ExtendToNext(current, highlight) ==
    [current EXCEPT !.timestamp_end_seconds = highlight.timestamp_end_seconds]

\* the merge branch: the end becomes the maximum of both clips
Extend(current, highlight) ==
    [current EXCEPT !.timestamp_end_seconds =
        Max(current.timestamp_end_seconds, highlight.timestamp_end_seconds)]

\* variant of the loop exit that leaves the open clip out
LastClipForgotten(merged_so_far, current) == merged_so_far

\* "Add the last clip"
AddLastClip(merged_so_far, current) == Append(merged_so_far, current)

RECURSIVE MergeLoop(_, _, _)
MergeLoop(rest, current, merged_so_far) ==
    IF rest = <<>> THEN AddLastClip(merged_so_far, current)
    ELSE LET highlight == Head(rest)
         IN  IF Overlaps(highlight, current)
             THEN MergeLoop(Tail(rest), Extend(current, highlight), merged_so_far)
             ELSE MergeLoop(Tail(rest), highlight, Append(merged_so_far, current))

merge_overlapping_clips(hs) ==
    IF hs = <<>> THEN <<>>
    ELSE LET s == sorted_highlights(hs)
         IN  MergeLoop(Tail(s), Head(s), <<>>)

----------------------------------------------------------------------------
(* The resting state of each part *)

MergeIdle ==
    /\ highlights_in = <<>>
    /\ merged = <<>>
    /\ remerged = <<>>
    /\ mpc = "input"

QueueIdle ==
    /\ queue = <<>>
    /\ qpc = "idle"
    /\ results = <<>>
    /\ processed_count = 0
    /\ queue_size = 0
    /\ returned = NoneValue
    /\ last_call = "none"
    /\ added = <<>>
    /\ snapshot = <<>>
    /\ calls = <<>>
    /\ outcomes = <<>>

\* GameProcessMonitor.__init__, on a host with no game running
MonitorIdle ==
    /\ running = {}
    /\ monitoring = FALSE
    /\ current_game_type = NoGame
    /\ detected_processes = {}
    /\ config_game_type = DefaultGameType
    /\ polls = <<>>
    /\ monitor_log = <<>>
    /\ fired = <<>>

\* process_multiple_videos not called
BatchIdle ==
    /\ video_paths = <<>>
    /\ batch_size = 1
    /\ batch_start = 0
    /\ task = <<>>
    /\ batch_output = <<>>
    /\ batch_returned = NoneValue
    /\ bpc = "idle"

\* KillProcessor.__init__: no monitor yet, watch mode not begun
WatchIdle ==
    /\ watching = FALSE
    /\ process_monitor = "None"
    /\ queue_when_gaming = FALSE
    /\ steady_game = FALSE
    /\ handled = <<>>

NoAttempt == [n |-> 0, temperature |-> BaseTemperature, outcome |-> "none"]

StoreIdle ==
    /\ output_file = {}
    /\ existing_data = <<>>
    /\ store_pc = <<>>
    /\ source_video = <<>>
    /\ thread = <<>>
    /\ processed_highlights = <<>>

CompIdle ==
    /\ nvenc_available = "None"
    /\ cc_highlights = <<>>
    /\ commands = <<>>
    /\ cc_result = "None"
    /\ compilations = 0

DetectIdle ==
    /\ process_list = <<>>
    /\ scan_completed = FALSE
    /\ scanned_games = {}
    /\ active_game = "unset"

LoopIdle ==
    /\ stop_event = FALSE
    /\ monitor_thread = 0
    /\ loop_pc = <<>>
    /\ loop_detected = <<>>
    /\ caller_pc = "ready"
    /\ start_calls = 0
    /\ stopped = FALSE
    /\ after_stop = {}

HandlerIdle ==
    /\ mtime = <<>>
    /\ settled = <<>>
    /\ events = <<>>
    /\ last_modified = <<>>
    /\ processing_files = {}
    /\ pending_files = {}
    /\ handler_pc = <<>>
    /\ handler_path = <<>>
    /\ current_mtime = <<>>
    /\ last_mtime = <<>>

ProcIdle ==
    /\ reprocess_analyzed_videos = FALSE
    /\ watch_mode_csv_path = FALSE
    /\ make_short = FALSE
    /\ short = "not_run"
    /\ compile_failed = {}
    /\ processed_videos = {}
    /\ kills_json = {}
    /\ watch_mode_token_data = <<>>
    /\ pc = "idle"
    /\ video = ""
    /\ retry_count = 0
    /\ current_temperature = BaseTemperature
    /\ highlights = NoneValue
    /\ token_usage = NoneValue
    /\ result = NoneValue
    /\ attempts = 0
    /\ sleeps = 0
    /\ last_attempt = NoAttempt
    /\ compile_input = NoneValue
    /\ segments = NoneValue
    /\ error_logged = FALSE
    /\ exception = "None"
    /\ runs = 0

----------------------------------------------------------------------------
(* VideoQueue *)

\* the value processor_callback(video_path) returns under an outcome that returns
CallbackResult(video_path, outcome) ==
    CASE outcome = "path"  -> CompilationOf(video_path)
      [] outcome = "empty" -> EmptyString
      [] OTHER             -> NoneValue

\* variant: `if result is not None:`, which lets an empty string through
NotNone(value) == value # NoneValue

\* `if result:` of process_all_queued
Truthy(value) == value # NoneValue /\ value # EmptyString

\* variant: deque.popleft(), the left end and what is left
popleft(q) == <<Head(q), Tail(q)>>

\* deque.pop(): the right end and what is left
pop(q) == <<q[Len(q)], SubSeq(q, 1, Len(q) - 1)>>

\* variant: deque.appendleft()
appendleft(q, video_path) == <<video_path>> \o q

\* deque.append(): add at the right end
append(q, video_path) == Append(q, video_path)

\* variant without the inner handler: a raise reaches the outer handler
InnerHandlerCatchesNothing(outcome) == FALSE

\* `except Exception as e: ... continue` around the callback catches every raise
InnerHandlerCatches(outcome) == outcome = "raise"

\* the add_video arguments since the last drain, as a new call begins
AddedSince == IF last_call = "process_all_queued" THEN <<>> ELSE added

\* add_video(video_path, game_name)
add_video(video_path) ==
    /\ qpc = "idle"
    /\ Len(queue) < MaxQueue
    /\ queue' = append(queue, video_path)
    /\ returned' = Len(queue')
    /\ last_call' = "add_video"
    /\ added' = Append(AddedSince, video_path)
    /\ snapshot' = queue
    /\ calls' = <<>>
    /\ outcomes' = <<>>
    /\ UNCHANGED <<qpc, results, processed_count, queue_size>>

AddVideo == \E video_path \in VideoPaths : add_video(video_path) /\ UNCHANGED <<mergeVars, procVars, monitorVars, watchVars, batchVars, storeVars, compVars, detectVars, loopVars, handlerVars>>

\* process_all_queued called on an empty queue: returns [] at once
ProcessAllQueuedEmpty ==
    /\ qpc = "idle"
    /\ queue = <<>>
    /\ returned' = <<>>
    /\ last_call' = "process_all_queued"
    /\ snapshot' = queue
    /\ calls' = <<>>
    /\ outcomes' = <<>>
    /\ added' = AddedSince
    /\ UNCHANGED <<queue, qpc, results, processed_count, queue_size>>
    /\ UNCHANGED <<mergeVars, procVars, monitorVars, watchVars, batchVars, storeVars, compVars, detectVars, loopVars, handlerVars>>

\* process_all_queued called on a non-empty queue: the locals are set up
ProcessAllQueuedBegin ==
    /\ qpc = "idle"
    /\ queue # <<>>
    /\ queue_size' = Len(queue)
    /\ results' = <<>>
    /\ processed_count' = 0
    /\ qpc' = "draining"
    /\ last_call' = "process_all_queued"
    /\ snapshot' = queue
    /\ calls' = <<>>
    /\ outcomes' = <<>>
    /\ added' = AddedSince
    /\ UNCHANGED <<queue, returned>>
    /\ UNCHANGED <<mergeVars, procVars, monitorVars, watchVars, batchVars, storeVars, compVars, detectVars, loopVars, handlerVars>>

\* one iteration of `while self.queue:`
ProcessQueuedVideo ==
    /\ qpc = "draining"
    /\ queue # <<>>
    /\ \E outcome \in CallbackOutcomes :
          LET video_path == pop(queue)[1]
              callback_result == CallbackResult(video_path, outcome)
          IN  /\ queue' = pop(queue)[2]
              /\ processed_count' = processed_count + 1
              /\ calls' = Append(calls, video_path)
              /\ outcomes' = Append(outcomes, outcome)
              /\ IF outcome = "raise"
                 THEN IF InnerHandlerCatches(outcome)
                      THEN \* logged, `continue`
                           UNCHANGED <<results, qpc, returned>>
                      ELSE \* the outer handler: `return results`
                           /\ qpc' = "idle"
                           /\ returned' = results
                           /\ UNCHANGED results
                 ELSE /\ results' = IF Truthy(callback_result)
                                    THEN Append(results, callback_result)
                                    ELSE results
                      /\ UNCHANGED <<qpc, returned>>
    /\ UNCHANGED <<queue_size, last_call, added, snapshot>>
    /\ UNCHANGED <<mergeVars, procVars, monitorVars, watchVars, batchVars, storeVars, compVars, detectVars, loopVars, handlerVars>>

\* the loop ends on the empty queue: `return results`
ProcessAllQueuedReturn ==
    /\ qpc = "draining"
    /\ queue = <<>>
    /\ returned' = results
    /\ qpc' = "idle"
    /\ UNCHANGED <<queue, results, processed_count, queue_size, last_call, added,
                   snapshot, calls, outcomes>>
    /\ UNCHANGED <<mergeVars, procVars, monitorVars, watchVars, batchVars, storeVars, compVars, detectVars, loopVars, handlerVars>>

QueueInit == MergeIdle /\ QueueIdle /\ ProcIdle /\ MonitorIdle /\ WatchIdle /\ BatchIdle /\ StoreIdle /\ CompIdle /\ DetectIdle /\ LoopIdle /\ HandlerIdle

QueueNext ==
    \/ AddVideo
    \/ ProcessAllQueuedEmpty
    \/ ProcessAllQueuedBegin
    \/ ProcessQueuedVideo
    \/ ProcessAllQueuedReturn

SpecQueue == QueueInit /\ [][QueueNext]_vars

----------------------------------------------------------------------------
(* Claims about VideoQueue *)

Reverse(s) == [i \in 1..Len(s) |-> s[Len(s) + 1 - i]]

Count(s, x) == Cardinality({i \in 1..Len(s) : s[i] = x})

DrainReturned == qpc = "idle" /\ last_call = "process_all_queued"

\* C9: process_all_queued invokes the callback on the queued paths in exactly the
\* reverse of the order in which add_video was called (a, b, c gives c, b, a).
C9_DrainIsLIFO ==
    DrainReturned => calls = Reverse(added)

C9_Witness ==
    /\ DrainReturned
    /\ added = <<"a", "b", "c">>
    /\ calls = <<"c", "b", "a">>

\* C10: when process_all_queued returns, the queue is empty and the callback was
\* invoked exactly once on every entry that was queued when it was called, also
\* when the callback raised for some of them.
C10_DrainIsTotal ==
    DrainReturned =>
        /\ queue = <<>>
        /\ Len(calls) = Len(snapshot)
        /\ \A video_path \in VideoPaths :
              Count(calls, video_path) = Count(snapshot, video_path)

\* a drain of three entries has returned although the callback raised for the
\* first one it processed
C10_Witness ==
    /\ DrainReturned
    /\ Len(snapshot) = 3
    /\ outcomes[1] = "raise"
    /\ queue = <<>>

\* the compilation paths of the invocations that returned one, in invocation order
RECURSIVE SuccessfulOutputs(_, _)
SuccessfulOutputs(paths, outs) ==
    IF paths = <<>> THEN <<>>
    ELSE LET rest == SuccessfulOutputs(Tail(paths), Tail(outs))
         IN  IF Head(outs) = "path"
             THEN <<CompilationOf(Head(paths))>> \o rest
             ELSE rest

\* C11: process_all_queued returns, in processing order, exactly the non-empty
\* outputs the callback returned; an entry whose callback raised, returned None
\* or returned an empty string has no element in the returned list.
C11_DrainReturnsSuccesses ==
    DrainReturned => returned = SuccessfulOutputs(calls, outcomes)

\* a, b, c were queued; processing b raised, the results of c and a are returned
C11_Witness ==
    /\ DrainReturned
    /\ calls = <<"c", "b", "a">>
    /\ outcomes = <<"path", "raise", "path">>
    /\ returned = <<CompilationOf("c"), CompilationOf("a")>>

\* C12: add_video rejects an empty path and leaves the queue as it was; with a
\* non-empty path it appends exactly that one entry and returns the queue size
\* after the append as the 1-based position.
C12_AddVideoRejectsEmptyPath ==
    (last_call = "add_video" /\ qpc = "idle") =>
        LET video_path == added[Len(added)]
        IN  IF video_path = ""
            THEN queue = snapshot
            ELSE /\ queue = Append(snapshot, video_path)
                 /\ returned = Len(queue)
                 /\ returned = Len(snapshot) + 1

----------------------------------------------------------------------------
(* The merge specification: any list of highlights is merged, then merged again *)

MergeInit ==
    /\ QueueIdle
    /\ ProcIdle
    /\ MonitorIdle
    /\ WatchIdle
    /\ BatchIdle
    /\ StoreIdle
    /\ CompIdle
    /\ DetectIdle
    /\ LoopIdle
    /\ HandlerIdle
    /\ highlights_in \in SeqsUpTo(MergeInputs, MaxHighlights)
    /\ merged = <<>>
    /\ remerged = <<>>
    /\ mpc = "input"

Merge ==
    /\ mpc = "input"
    /\ merged' = merge_overlapping_clips(highlights_in)
    /\ mpc' = "merged"
    /\ UNCHANGED <<highlights_in, remerged>>
    /\ UNCHANGED <<queueVars, procVars, monitorVars, watchVars, batchVars, storeVars, compVars, detectVars, loopVars, handlerVars>>

ReMerge ==
    /\ mpc = "merged"
    /\ remerged' = merge_overlapping_clips(merged)
    /\ mpc' = "remerged"
    /\ UNCHANGED <<highlights_in, merged>>
    /\ UNCHANGED <<queueVars, procVars, monitorVars, watchVars, batchVars, storeVars, compVars, detectVars, loopVars, handlerVars>>

MergeNext == Merge \/ ReMerge

SpecMerge == MergeInit /\ [][MergeNext]_vars

----------------------------------------------------------------------------
(* KillProcessor.process_single_video *)

\* what analyze_video returns as its highlight list: nothing, one highlight,
\* two overlapping highlights, and one highlight that ends before it starts
\* (the bounds of the response are copied as they come)
AnalysisReturns == {<<>>, <<H(0, 10)>>, <<H(10, 20), H(15, 25)>>, <<H(20, 10)>>}

\* what analyze_video raises: a missing file, a non-MP4 file or a missing API
\* key, a failed API call or unusable response, and the TypeError of a call
\* with a keyword that analyze_video does not take
AnalysisRaises == {"FileNotFoundError", "ValueError", "RuntimeError", "TypeError"}

\* what process_video_highlights does: return the compilation path, or let the
\* CalledProcessError of create_compilation through
CompileOutcomes == {"created", "CalledProcessError"}

\* variant comparing full paths with the stored file names: nothing matches
FullPathsNeverMatch(video_path) == FALSE

\* is_video_already_analyzed(video_path)
is_video_already_analyzed(video_path) == video_path \in kills_json

\* variant of the loop without the break on a non-empty list
NeverBreaks(found) == FALSE

\* `if highlights: ... break`
BreaksOnHighlights(found) == Truthy(found)

\* `if retry_count < max_retries:`, after an empty result and in the handler alike
RetriesLeft(n) == n < max_zero_highlight_retries

\* the token row of an attempt that returned
TokenData(video_path, status) == <<video_path, status>>

\* the temperature of the generation request of analyze_video:
\* `temperature=config.temperature`, whatever the caller's current_temperature
GenerationTemperature(temperature) == BaseTemperature

\* `current_temperature += 0.1`, in tenths
NextTemperature(temperature) == temperature + TemperatureStep

\* process_single_video(video_path) up to the retry loop
process_single_video(video_path) ==
    /\ pc \in {"idle", "done"}
    /\ runs < MaxRuns
    /\ runs' = runs + 1
    /\ video' = video_path
    /\ token_usage' = NoneValue
    /\ retry_count' = 0
    /\ highlights' = NoneValue
    /\ current_temperature' = BaseTemperature
    /\ result' = NoneValue
    /\ attempts' = 0
    /\ sleeps' = 0
    /\ last_attempt' = NoAttempt
    /\ compile_input' = NoneValue
    /\ segments' = NoneValue
    /\ error_logged' = FALSE
    /\ exception' = "None"
    /\ short' = "not_run"
    /\ IF ~reprocess_analyzed_videos /\ video_path \in processed_videos
       THEN \* "Skipping already processed video"
            /\ pc' = "done"
            /\ UNCHANGED processed_videos
       ELSE IF ~reprocess_analyzed_videos /\ is_video_already_analyzed(video_path)
       THEN \* "Skipping already analyzed video"
            /\ processed_videos' = processed_videos \cup {video_path}
            /\ pc' = "done"
       ELSE /\ pc' = "loop"
            /\ UNCHANGED processed_videos
    /\ UNCHANGED <<reprocess_analyzed_videos, watch_mode_csv_path, make_short, kills_json,
                   watch_mode_token_data, compile_failed>>

ProcessSingleVideo ==
    \E video_path \in Videos :
        process_single_video(video_path) /\ UNCHANGED <<mergeVars, queueVars, monitorVars, watchVars, batchVars, storeVars, compVars, detectVars, loopVars, handlerVars>>

\* variant: the analysis leaves the store as it is
StoreLeftAlone(found) == kills_json

\* analyze_video extends the highlights of kills.json by what it found, before
\* it returns and whatever becomes of the compilation
StoreAfterAnalysis(found) == IF found = <<>> THEN kills_json ELSE kills_json \cup {video}

\* one pass of `while retry_count <= max_retries` in which analyze_video returns
AnalyzeVideoReturns ==
    /\ pc = "loop"
    /\ retry_count <= max_zero_highlight_retries
    /\ attempts < MaxAttempts
    /\ \E found \in AnalysisReturns :
          /\ attempts' = attempts + 1
          /\ last_attempt' = [n |-> retry_count, temperature |-> current_temperature,
                              outcome |-> IF found = <<>> THEN "empty" ELSE "highlights"]
          /\ highlights' = found
          /\ token_usage' = TokenData(video, "success")
          /\ kills_json' = StoreAfterAnalysis(found)
          /\ IF BreaksOnHighlights(found)
             THEN /\ pc' = "break"
                  /\ UNCHANGED <<retry_count, current_temperature, sleeps>>
             ELSE IF RetriesLeft(retry_count)
             THEN /\ retry_count' = retry_count + 1
                  /\ current_temperature' = NextTemperature(current_temperature)
                  /\ sleeps' = sleeps + 1
                  /\ UNCHANGED pc
             ELSE \* "No highlights found ... after max_retries retries": nothing changes
                  UNCHANGED <<retry_count, current_temperature, sleeps, pc>>
    /\ UNCHANGED <<reprocess_analyzed_videos, watch_mode_csv_path, make_short, processed_videos,
                   watch_mode_token_data, video, result, compile_input, segments,
                   error_logged, exception, runs,
                   short, compile_failed>>
    /\ UNCHANGED <<mergeVars, queueVars, monitorVars, watchVars, batchVars, storeVars, compVars, detectVars, loopVars, handlerVars>>

\* one pass of the loop in which analyze_video raises
AnalyzeVideoRaises ==
    /\ pc = "loop"
    /\ retry_count <= max_zero_highlight_retries
    /\ attempts < MaxAttempts
    /\ \E raised \in AnalysisRaises :
          /\ attempts' = attempts + 1
          /\ last_attempt' = [n |-> retry_count, temperature |-> current_temperature,
                              outcome |-> raised]
          /\ IF RetriesLeft(retry_count)
             THEN /\ retry_count' = retry_count + 1
                  /\ current_temperature' = NextTemperature(current_temperature)
                  /\ sleeps' = sleeps + 1
                  /\ UNCHANGED <<pc, exception>>
             ELSE \* `raise`: on to the handler of the whole call
                  /\ pc' = "except"
                  /\ exception' = raised
                  /\ UNCHANGED <<retry_count, current_temperature, sleeps>>
    /\ UNCHANGED <<reprocess_analyzed_videos, watch_mode_csv_path, make_short, processed_videos,
                   kills_json, watch_mode_token_data, video, highlights, token_usage,
                   result, compile_input, segments, error_logged, runs,
                   short, compile_failed>>
    /\ UNCHANGED <<mergeVars, queueVars, monitorVars, watchVars, batchVars, storeVars, compVars, detectVars, loopVars, handlerVars>>

\* after the loop: the token row of watch mode and the `if not highlights` test
TrackTokens ==
    /\ \/ pc = "break"
       \/ pc = "loop" /\ retry_count > max_zero_highlight_retries
    /\ watch_mode_token_data' =
          IF token_usage # NoneValue /\ watch_mode_csv_path
          THEN Append(watch_mode_token_data, token_usage)
          ELSE watch_mode_token_data
    /\ IF ~Truthy(highlights)
       THEN \* "No kills found"
            /\ processed_videos' = processed_videos \cup {video}
            /\ result' = NoneValue
            /\ pc' = "done"
       ELSE /\ pc' = "compile"
            /\ UNCHANGED <<processed_videos, result>>
    /\ UNCHANGED <<reprocess_analyzed_videos, watch_mode_csv_path, make_short, kills_json, video,
                   retry_count, current_temperature, highlights, token_usage, attempts,
                   sleeps, last_attempt, compile_input, segments, error_logged, exception, runs,
                   short, compile_failed>>
    /\ UNCHANGED <<mergeVars, queueVars, monitorVars, watchVars, batchVars, storeVars, compVars, detectVars, loopVars, handlerVars>>

\* what create_short_from_compilation does: return the path of the short,
\* return nothing, or raise
ShortReturns == {"created", "None"}

ShortRaises == {"CalledProcessError", "RuntimeError"}

\* variant: `except ValueError` around the short creation
ShortHandlerCatchesValueError(raised) == raised = "ValueError"

\* `except Exception` around create_short_from_compilation
ShortHandlerCatches(raised) == raised \in ShortRaises

\* process_video_highlights(video_path, highlights): merge, create_compilation,
\* then the short if config.make_short; process_single_video adds the video to
\* processed_videos when a compilation path comes back
Compile ==
    /\ pc = "compile"
    /\ compile_input' = highlights
    /\ segments' = merge_overlapping_clips(highlights)
    /\ \E outcome \in CompileOutcomes :
          IF outcome = "created"
          THEN \E short_outcome \in IF make_short THEN ShortReturns \cup ShortRaises
                                                   ELSE {"not_run"} :
                  /\ short' = short_outcome
                  /\ IF short_outcome \in ShortRaises /\ ~ShortHandlerCatches(short_outcome)
                     THEN \* the exception of the short leaves process_video_highlights
                          /\ pc' = "except"
                          /\ exception' = short_outcome
                          /\ UNCHANGED <<processed_videos, result>>
                     ELSE \* `return final_video_path`
                          /\ processed_videos' = processed_videos \cup {video}
                          /\ result' = CompilationOf(video)
                          /\ pc' = "done"
                          /\ UNCHANGED exception
                  /\ UNCHANGED compile_failed
          ELSE /\ pc' = "except"
               /\ exception' = outcome
               /\ compile_failed' = compile_failed \cup {video}
               /\ UNCHANGED <<processed_videos, result, short>>
    /\ UNCHANGED <<reprocess_analyzed_videos, watch_mode_csv_path, make_short, kills_json,
                   watch_mode_token_data, video, retry_count, current_temperature,
                   highlights, token_usage, attempts, sleeps, last_attempt,
                   error_logged, runs>>
    /\ UNCHANGED <<mergeVars, queueVars, monitorVars, watchVars, batchVars, storeVars, compVars, detectVars, loopVars, handlerVars>>

\* everything the analysis or the compilation of a video can fail with
Failures == AnalysisRaises \cup (CompileOutcomes \ {"created"}) \cup ShortRaises

\* the value of a call that ended by raising this exception to its caller
Raised(raised) == <<"raised", raised>>

\* variant: `except RuntimeError`, which lets every other exception through
OuterHandlerCatchesRuntimeError(raised) == raised = "RuntimeError"

\* `except Exception` around the whole body: every exception of the analysis
\* and of the compilation is an Exception
OuterHandlerCatches(raised) == raised \in Failures

\* `except Exception as e:` of the whole call: log, error row in watch mode, None
HandleError ==
    /\ pc = "except"
    /\ IF OuterHandlerCatches(exception)
       THEN /\ error_logged' = TRUE
            /\ watch_mode_token_data' =
                  IF watch_mode_csv_path
                  THEN Append(watch_mode_token_data, TokenData(video, "error"))
                  ELSE watch_mode_token_data
            /\ result' = NoneValue
       ELSE \* not caught: the exception leaves process_single_video
            /\ result' = Raised(exception)
            /\ UNCHANGED <<error_logged, watch_mode_token_data>>
    /\ pc' = "done"
    /\ UNCHANGED <<reprocess_analyzed_videos, watch_mode_csv_path, make_short, processed_videos,
                   kills_json, video, retry_count, current_temperature, highlights,
                   token_usage, attempts, sleeps, last_attempt, compile_input,
                   segments, exception, runs,
                   short, compile_failed>>
    /\ UNCHANGED <<mergeVars, queueVars, monitorVars, watchVars, batchVars, storeVars, compVars, detectVars, loopVars, handlerVars>>

\* a KillProcessor as constructed, with any configuration and any kills.json
\* left by earlier runs
Init ==
    /\ MergeIdle
    /\ QueueIdle
    /\ MonitorIdle
    /\ WatchIdle
    /\ BatchIdle
    /\ StoreIdle
    /\ CompIdle
    /\ DetectIdle
    /\ LoopIdle
    /\ HandlerIdle
    /\ reprocess_analyzed_videos \in BOOLEAN
    /\ watch_mode_csv_path \in BOOLEAN
    /\ make_short \in BOOLEAN
    /\ short = "not_run"
    /\ compile_failed = {}
    /\ processed_videos = {}
    /\ kills_json \in SUBSET Videos
    /\ watch_mode_token_data = <<>>
    /\ pc = "idle"
    /\ video = ""
    /\ retry_count = 0
    /\ current_temperature = BaseTemperature
    /\ highlights = NoneValue
    /\ token_usage = NoneValue
    /\ result = NoneValue
    /\ attempts = 0
    /\ sleeps = 0
    /\ last_attempt = NoAttempt
    /\ compile_input = NoneValue
    /\ segments = NoneValue
    /\ error_logged = FALSE
    /\ exception = "None"
    /\ runs = 0

Next ==
    \/ ProcessSingleVideo
    \/ AnalyzeVideoReturns
    \/ AnalyzeVideoRaises
    \/ TrackTokens
    \/ Compile
    \/ HandleError

Spec == Init /\ [][Next]_vars

----------------------------------------------------------------------------
(* GameProcessMonitor *)

\* running_games[game_process] of get_running_game_processes
GameTypeOf(game_process) ==
    LET i == CHOOSE k \in 1..Len(GAME_PROCESS_MAP) : GAME_PROCESS_MAP[k].process = game_process
    IN  GAME_PROCESS_MAP[i].game_type

\* variant: the game type of the last process of the table that is running
detect_last_in_table(running_games) ==
    IF running_games = {} THEN NoGame
    ELSE LET last == CHOOSE k \in 1..Len(GAME_PROCESS_MAP) :
                          /\ GAME_PROCESS_MAP[k].process \in running_games
                          /\ \A j \in (k + 1)..Len(GAME_PROCESS_MAP) :
                                GAME_PROCESS_MAP[j].process \notin running_games
         IN  GAME_PROCESS_MAP[last].game_type

\* detect_active_game(): the game type of the first process of GAME_PROCESS_MAP
\* that is running, None when none is
detect_active_game(running_games) ==
    IF running_games = {} THEN NoGame
    ELSE LET first == CHOOSE k \in 1..Len(GAME_PROCESS_MAP) :
                          /\ GAME_PROCESS_MAP[k].process \in running_games
                          /\ \A j \in 1..(k - 1) : GAME_PROCESS_MAP[j].process \notin running_games
         IN  GAME_PROCESS_MAP[first].game_type

\* update_game_type(new_game_type) returns True: the type differs from the current one
update_game_type_changes(new_game_type) == current_game_type # new_game_type

\* what a check leaves in current_game_type: update_game_type is called only
\* `if detected_game_type:`; with no game detected the current type is kept
GameTypeAfter(detected_game_type) ==
    IF detected_game_type # NoGame THEN detected_game_type ELSE current_game_type

\* what a check leaves in config._config['game_type']
ConfigGameTypeAfter(detected_game_type) ==
    IF detected_game_type # NoGame /\ update_game_type_changes(detected_game_type)
    THEN detected_game_type
    ELSE config_game_type

\* the lines one pass of monitor_loop logs
MonitorLoopLog(detected_game_type, current_processes) ==
    {<<"Game process detected", process>> : process \in current_processes \ detected_processes}
    \cup {<<"Game process stopped", process>> : process \in detected_processes \ current_processes}
    \cup (IF detected_game_type # NoGame
          THEN IF update_game_type_changes(detected_game_type)
               THEN {<<"Game detected: Switched to", detected_game_type>>}
               ELSE {}
          ELSE IF current_game_type # NoGame
               THEN {<<"No game processes detected, keeping current configuration", current_game_type>>}
               ELSE {})

\* a game process starts on the host
GameProcessStarts ==
    /\ \E process \in GameProcesses \ running : running' = running \cup {process}
    /\ steady_game' = FALSE
    /\ UNCHANGED <<monitoring, current_game_type, detected_processes, config_game_type,
                   polls, monitor_log, fired>>
    /\ UNCHANGED <<watching, process_monitor, queue_when_gaming, handled>>
    /\ UNCHANGED <<mergeVars, queueVars, procVars, batchVars, storeVars, compVars, detectVars, loopVars, handlerVars>>

\* a game process ends
GameProcessStops ==
    /\ \E process \in running : running' = running \ {process}
    /\ steady_game' = FALSE
    /\ UNCHANGED <<monitoring, current_game_type, detected_processes, config_game_type,
                   polls, monitor_log, fired>>
    /\ UNCHANGED <<watching, process_monitor, queue_when_gaming, handled>>
    /\ UNCHANGED <<mergeVars, queueVars, procVars, batchVars, storeVars, compVars, detectVars, loopVars, handlerVars>>

\* start_monitoring(): the initial check, then the polling thread is started
start_monitoring ==
    /\ ~monitoring
    /\ Len(polls) < MaxPolls
    /\ monitoring' = TRUE
    /\ LET initial_game_type == detect_active_game(running)
       IN  /\ polls' = Append(polls, initial_game_type)
           /\ current_game_type' = GameTypeAfter(initial_game_type)
           /\ config_game_type' = ConfigGameTypeAfter(initial_game_type)
           /\ monitor_log' =
                 IF initial_game_type # NoGame
                 THEN IF update_game_type_changes(initial_game_type)
                      THEN {<<"Game detected: Switched to", initial_game_type>>}
                      ELSE {}
                 ELSE {<<"No game processes detected at startup", NoGame>>}
    /\ UNCHANGED <<running, detected_processes, fired>>

StartMonitoring ==
    start_monitoring /\ UNCHANGED <<mergeVars, queueVars, procVars, watchVars, batchVars, storeVars, compVars, detectVars, loopVars, handlerVars>>

\* one pass of `while not self.stop_event.wait(self.check_interval)`: the
\* processes are scanned twice, and may have changed between the two scans
monitor_loop ==
    /\ monitoring
    /\ Len(polls) < MaxPolls
    /\ \E running_games \in SUBSET GameProcesses :
          LET detected_game_type == detect_active_game(running)
          IN  /\ running' = running_games
              /\ polls' = Append(polls, detected_game_type)
              /\ monitor_log' = MonitorLoopLog(detected_game_type, running_games)
              /\ detected_processes' = running_games
              /\ current_game_type' = GameTypeAfter(detected_game_type)
              /\ config_game_type' = ConfigGameTypeAfter(detected_game_type)
    \* the loop holds no callback and calls none
    /\ UNCHANGED <<monitoring, fired>>

MonitorLoop ==
    /\ monitor_loop
    /\ steady_game' = FALSE
    /\ UNCHANGED <<watching, process_monitor, queue_when_gaming, handled>>
    /\ UNCHANGED <<mergeVars, queueVars, procVars, batchVars, storeVars, compVars, detectVars, loopVars, handlerVars>>

\* stop_monitoring(): the stop event ends the loop
stop_monitoring ==
    /\ monitoring
    /\ monitoring' = FALSE
    /\ UNCHANGED <<running, current_game_type, detected_processes, config_game_type,
                   polls, monitor_log, fired>>

StopMonitoring ==
    stop_monitoring /\ UNCHANGED <<mergeVars, queueVars, procVars, watchVars, batchVars, storeVars, compVars, detectVars, loopVars, handlerVars>>

\* a GameProcessMonitor(config, check_interval) as constructed
MonitorInit == MergeIdle /\ QueueIdle /\ ProcIdle /\ MonitorIdle /\ WatchIdle /\ BatchIdle /\ StoreIdle /\ CompIdle /\ DetectIdle /\ LoopIdle /\ HandlerIdle

MonitorNext ==
    \/ GameProcessStarts
    \/ GameProcessStops
    \/ StartMonitoring
    \/ MonitorLoop
    \/ StopMonitoring

SpecMonitor == MonitorInit /\ [][MonitorNext]_vars

----------------------------------------------------------------------------
(* Watch mode: KillProcessor.start_watching and process_single_video_sync *)

\* the parameters of GameProcessMonitor.__init__ besides self
GameProcessMonitorParameters == {"config", "check_interval"}

\* GameProcessMonitor(...) called with these arguments: the monitor, or the
\* TypeError of a keyword that __init__ does not take
GameProcessMonitor(arguments) ==
    IF arguments \subseteq GameProcessMonitorParameters
    THEN "GameProcessMonitor"
    ELSE "TypeError"

\* start_watching(): token tracking set up, then the monitor is constructed
\* and started; a failure to do so is logged and watch mode goes on without
StartWatching ==
    /\ ~watching
    /\ watching' = TRUE
    /\ watch_mode_token_data' = <<>>
    /\ watch_mode_csv_path' \in BOOLEAN
    /\ LET constructed == GameProcessMonitor({"config", "check_interval",
                                               "on_game_start", "on_game_stop"})
       IN  IF constructed = "TypeError"
           THEN \* "Failed to start process monitor"
                /\ process_monitor' = "None"
                /\ UNCHANGED monitorVars
           ELSE /\ process_monitor' = constructed
                /\ start_monitoring
    /\ steady_game' = (running # {})
    /\ UNCHANGED <<queue_when_gaming, handled>>
    /\ UNCHANGED <<reprocess_analyzed_videos, make_short, processed_videos, kills_json, pc, video,
                   retry_count, current_temperature, highlights, token_usage, result,
                   attempts, sleeps, last_attempt, compile_input, segments,
                   error_logged, exception, runs,
                   short, compile_failed>>
    /\ UNCHANGED <<mergeVars, queueVars, batchVars, storeVars, compVars, detectVars, loopVars, handlerVars>>

\* what process_single_video_sync does with a video, as the log of the session keeps it
Handled(video_path, what) ==
    [video |-> video_path, game_running |-> running # {}, steady_game |-> steady_game,
     what |-> what]

\* the test of process_single_video_sync for queueing instead of processing
ShouldQueue ==
    /\ queue_when_gaming
    /\ process_monitor # "None"
    /\ current_game_type # NoGame

\* process_single_video_sync(video_path), called by the file watcher
process_single_video_sync(video_path) ==
    /\ watching
    /\ Len(handled) < MaxHandled
    /\ IF ShouldQueue
       THEN \* self.video_queue.add_video(video_path, game_name); return None
            /\ Len(queue) < MaxQueue
            /\ queue' = append(queue, video_path)
            /\ handled' = Append(handled, Handled(video_path, "queued"))
       ELSE \* self._process_video_without_queue(video_path)
            /\ handled' = Append(handled, Handled(video_path, "processed"))
            /\ UNCHANGED queue
    /\ UNCHANGED <<watching, process_monitor, queue_when_gaming, steady_game>>
    /\ UNCHANGED <<qpc, results, processed_count, queue_size, returned, last_call,
                   added, snapshot, calls, outcomes>>

ProcessSingleVideoSync ==
    \E video_path \in Videos :
        /\ process_single_video_sync(video_path)
        /\ UNCHANGED <<mergeVars, procVars, monitorVars, batchVars, storeVars, compVars, detectVars, loopVars, handlerVars>>

\* a KillProcessor as constructed, with queueing while gaming configured or not
WatchInit ==
    /\ MergeIdle
    /\ QueueIdle
    /\ ProcIdle
    /\ MonitorIdle
    /\ BatchIdle
    /\ StoreIdle
    /\ CompIdle
    /\ DetectIdle
    /\ LoopIdle
    /\ HandlerIdle
    /\ watching = FALSE
    /\ process_monitor = "None"
    /\ queue_when_gaming \in BOOLEAN
    /\ steady_game = FALSE
    /\ handled = <<>>

WatchNext ==
    \/ GameProcessStarts
    \/ GameProcessStops
    \/ StartWatching
    \/ ProcessSingleVideoSync

SpecWatch == WatchInit /\ [][WatchNext]_vars

----------------------------------------------------------------------------
(* Claims about watch mode *)

----------------------------------------------------------------------------
(* Claims about GameProcessMonitor *)

\* one notification per change of the detected mode, the mode being None
\* before the first check: a start when a game is detected, a stop when none is
RECURSIVE ModeChangeNotifications(_, _)
ModeChangeNotifications(previous_mode, detected) ==
    IF detected = <<>> THEN <<>>
    ELSE LET rest == ModeChangeNotifications(Head(detected), Tail(detected))
         IN  IF Head(detected) = previous_mode THEN rest
             ELSE IF Head(detected) = NoGame THEN <<"stop">> \o rest
             ELSE <<"start">> \o rest

\* C13: the monitor is edge-triggered: over any sequence of checks it has fired
\* exactly one notification per change of the detected mode (a start when a game
\* appears, a stop when it disappears) and none for a check that detected the
\* same mode as the one before; {X},{X},{X},{},{} gives one start and one stop.
C13_EdgeTriggered ==
    /\ fired = ModeChangeNotifications(NoGame, polls)
    /\ polls = <<"kills", "kills", "kills", NoGame, NoGame>> => fired = <<"start", "stop">>

\* C14: after every check, current_game_type is the mode that check detected,
\* None included when no known game process is running any more.
C14_CurrentIsDetected ==
    polls # <<>> => current_game_type = polls[Len(polls)]

----------------------------------------------------------------------------
(* Claims about the retry loop of process_single_video *)

\* the latest attempt of the running call was made with no retry left
Exhausted == attempts > 0 /\ last_attempt.n = max_zero_highlight_retries

\* C5: one process_single_video call makes at most max_zero_highlight_retries + 1
\* analysis attempts; after that many empty or failed attempts in a row it makes
\* no further attempt.
C5_AttemptsBounded ==
    attempts <= max_zero_highlight_retries + 1

\* C6: an attempt that returns a non-empty highlight list ends the loop; from
\* then on the call makes no further attempt, keeps that list, and hands exactly
\* that list to the compilation.
C6_SuccessShortCircuit ==
    [][/\ (attempts' = attempts + 1 /\ last_attempt'.outcome = "highlights") =>
              (pc' = "break" /\ Truthy(highlights'))
       /\ pc = "break" =>
              (attempts' = attempts /\ highlights' = highlights /\ pc' = "compile")
       /\ pc = "compile" =>
              (attempts' = attempts /\ highlights' = highlights
                  /\ compile_input' = highlights)
       /\ pc = "except" => attempts' = attempts]_vars

\* a second attempt found two highlights, which were then compiled
C6_Witness ==
    /\ pc = "done"
    /\ attempts = 2
    /\ last_attempt.outcome = "highlights"
    /\ compile_input = <<H(10, 20), H(15, 25)>>
    /\ result = CompilationOf(video)

\* C7: when the attempt made with no retry left ends empty or with a transient
\* error, the call leaves the loop for the "nothing found" result: it does not
\* go on attempting, and the failure is not handled or recorded as an error.
C7_ExhaustedIsEmptyResult ==
    (Exhausted /\ last_attempt.outcome \in {"empty", "RuntimeError"}) =>
        /\ pc \notin {"loop", "except"}
        /\ ~error_logged
        /\ \A i \in 1..Len(watch_mode_token_data) :
              watch_mode_token_data[i] # TokenData(video, "error")

\* C8: an attempt that fails with a non-retryable error (missing file, non-MP4
\* file, missing API key) ends the call at once: no retry and no delay follows,
\* and if it was the first attempt it stays the only one.
C8_FatalFailsAtOnce ==
    (attempts > 0 /\ last_attempt.outcome \in {"FileNotFoundError", "ValueError"}) =>
        /\ pc \in {"except", "done"}
        /\ last_attempt.n = 0 => (attempts = 1 /\ sleeps = 0)

----------------------------------------------------------------------------
(* KillProcessor.process_multiple_videos *)

Min(a, b) == IF a <= b THEN a ELSE b

\* variant: the slice video_paths[i:], everything that is left
BatchToEnd(paths, i, size) == (i + 1)..Len(paths)

\* the positions of `batch = video_paths[i:i + batch_size]`
Batch(paths, i, size) == (i + 1)..Min(i + size, Len(paths))

\* variant: asyncio.gather without return_exceptions
return_exceptions_default == FALSE

\* asyncio.gather(..., return_exceptions=True)
return_exceptions == TRUE

\* "Filter successful results": the str results of the batch, in batch order
RECURSIVE FilterSuccessful(_, _, _)
FilterSuccessful(paths, first, last) ==
    IF first > last THEN <<>>
    ELSE (IF task[first] = "path" THEN <<CompilationOf(paths[first])>> ELSE <<>>)
         \o FilterSuccessful(paths, first + 1, last)

\* process_multiple_videos(video_paths) up to the loop
ProcessMultipleVideos ==
    /\ bpc = "idle"
    /\ IF video_paths = <<>>
       THEN \* "No videos to process"
            /\ batch_returned' = <<>>
            /\ bpc' = "returned"
       ELSE /\ bpc' = "loop"
            /\ UNCHANGED batch_returned
    /\ batch_start' = 0
    /\ batch_output' = <<>>
    /\ UNCHANGED <<video_paths, batch_size, task>>
    /\ UNCHANGED <<mergeVars, queueVars, procVars, monitorVars, watchVars, storeVars, compVars, detectVars, loopVars, handlerVars>>

\* asyncio.gather(*(self.process_single_video(video_path) for video_path in batch)):
\* every coroutine of the batch becomes a task
GatherBatch ==
    /\ bpc = "loop"
    /\ batch_start < Len(video_paths)
    /\ task' = [k \in 1..Len(video_paths) |->
                  IF k \in Batch(video_paths, batch_start, batch_size)
                  THEN "in_flight"
                  ELSE task[k]]
    /\ bpc' = "gathering"
    /\ UNCHANGED <<video_paths, batch_size, batch_start, batch_output, batch_returned>>
    /\ UNCHANGED <<mergeVars, queueVars, procVars, monitorVars, watchVars, storeVars, compVars, detectVars, loopVars, handlerVars>>

\* one task of the batch settles; an exception is kept as its result, or,
\* without return_exceptions, raised out of gather and out of the call
TaskSettles ==
    /\ bpc \in {"gathering", "raised"}
    /\ \E k \in 1..Len(video_paths), outcome \in TaskOutcomes :
          /\ task[k] = "in_flight"
          /\ task' = [task EXCEPT ![k] = outcome]
          /\ bpc' = IF outcome = "raise" /\ ~return_exceptions THEN "raised" ELSE bpc
    /\ UNCHANGED <<video_paths, batch_size, batch_start, batch_output, batch_returned>>
    /\ UNCHANGED <<mergeVars, queueVars, procVars, monitorVars, watchVars, storeVars, compVars, detectVars, loopVars, handlerVars>>

\* gather returns once every task has settled: the results are filtered and
\* the loop goes on with the next batch
FilterBatchResults ==
    /\ bpc = "gathering"
    /\ \A k \in 1..Len(video_paths) : task[k] # "in_flight"
    /\ LET batch == Batch(video_paths, batch_start, batch_size)
       IN  batch_output' = batch_output \o
               FilterSuccessful(video_paths, batch_start + 1,
                                batch_start + Cardinality(batch))
    /\ batch_start' = batch_start + batch_size
    /\ bpc' = "loop"
    /\ UNCHANGED <<video_paths, batch_size, task, batch_returned>>
    /\ UNCHANGED <<mergeVars, queueVars, procVars, monitorVars, watchVars, storeVars, compVars, detectVars, loopVars, handlerVars>>

\* the range is used up: `return results`
ReturnBatchResults ==
    /\ bpc = "loop"
    /\ batch_start >= Len(video_paths)
    /\ batch_returned' = batch_output
    /\ bpc' = "returned"
    /\ UNCHANGED <<video_paths, batch_size, batch_start, task, batch_output>>
    /\ UNCHANGED <<mergeVars, queueVars, procVars, monitorVars, watchVars, storeVars, compVars, detectVars, loopVars, handlerVars>>

\* a call of process_multiple_videos with any list of videos and any batch size
BatchInit ==
    /\ MergeIdle
    /\ QueueIdle
    /\ ProcIdle
    /\ MonitorIdle
    /\ WatchIdle
    /\ StoreIdle
    /\ CompIdle
    /\ DetectIdle
    /\ LoopIdle
    /\ HandlerIdle
    /\ video_paths \in SeqsUpTo(Videos, MaxBatchVideos)
    /\ batch_size \in 1..MaxBatchSize
    /\ batch_start = 0
    /\ task = [k \in 1..Len(video_paths) |-> "waiting"]
    /\ batch_output = <<>>
    /\ batch_returned = NoneValue
    /\ bpc = "idle"

BatchNext ==
    \/ ProcessMultipleVideos
    \/ GatherBatch
    \/ TaskSettles
    \/ FilterBatchResults
    \/ ReturnBatchResults

SpecBatch == BatchInit /\ [][BatchNext]_vars

----------------------------------------------------------------------------
(* Claims about process_multiple_videos *)

InFlight == {k \in 1..Len(video_paths) : task[k] = "in_flight"}

\* the consecutive batch of batch_size positions that position k belongs to
BatchOf(k) == (k - 1) \div batch_size

\* C18: the input is processed in consecutive batches of batch_size: the videos
\* of a batch are dispatched together, no video of a later batch is dispatched
\* before every video of the batches before it has settled, and at most
\* batch_size videos are in flight at any time.
C18_BatchesBounded ==
    /\ Cardinality(InFlight) <= batch_size
    /\ \A j, k \in 1..Len(video_paths) :
          /\ (BatchOf(j) = BatchOf(k)) => (task[j] = "waiting" <=> task[k] = "waiting")
          /\ (BatchOf(j) < BatchOf(k) /\ task[k] # "waiting") =>
                 task[j] \in TaskOutcomes

\* the second batch of two is in flight, the first has settled
C18_Witness ==
    /\ batch_size = 2
    /\ Len(video_paths) = 4
    /\ InFlight = {3, 4}
    /\ task[1] \in TaskOutcomes
    /\ task[2] \in TaskOutcomes

\* C19: a video whose processing fails neither aborts nor skips any other
\* video: when the call ends it has returned, every input video was processed,
\* and the returned list holds exactly the compilation paths of the videos
\* that succeeded, in input order.
C19_FailuresAreIsolated ==
    bpc \in {"returned", "raised"} =>
        /\ bpc = "returned"
        /\ \A k \in 1..Len(video_paths) : task[k] \in TaskOutcomes
        /\ batch_returned = SuccessfulOutputs(video_paths, task)

\* the first video raised, its sibling and the next batch were processed
C19_Witness ==
    /\ bpc = "returned"
    /\ batch_size = 2
    /\ video_paths = <<"v1.mp4", "v2.mp4", "v1.mp4">>
    /\ task = <<"raise", "path", "path">>
    /\ batch_returned = <<CompilationOf("v2.mp4"), CompilationOf("v1.mp4")>>

----------------------------------------------------------------------------
(* Claims about process_single_video as a whole *)

\* the step is a call of process_single_video
Called == runs' = runs + 1

\* C16: a call for a video that has a record in the highlights store, with
\* reprocessing disabled, returns None at once: no analysis call is made and
\* nothing is compiled or written.
C16_DedupShortCircuit ==
    [][(Called /\ ~reprocess_analyzed_videos /\ video' \in kills_json) =>
           /\ pc' = "done"
           /\ result' = NoneValue
           /\ attempts' = 0
           /\ compile_input' = NoneValue
           /\ kills_json' = kills_json]_vars

\* the first call of a session found the video in the store and returned
C16_Witness ==
    /\ runs = 1
    /\ pc = "done"
    /\ ~reprocess_analyzed_videos
    /\ video \in kills_json
    /\ attempts = 0
    /\ result = NoneValue
    /\ video \in processed_videos

\* C17: when the analysis ends empty with no retry left, the call returns None
\* and records the video as checked, and a later call for a recorded video with
\* reprocessing disabled returns at once without an analysis call.
C17_EmptyResultRecorded ==
    [][/\ (pc = "loop" /\ Exhausted /\ last_attempt.outcome = "empty") =>
              /\ pc' = "done"
              /\ result' = NoneValue
              /\ video \in processed_videos'
       /\ (Called /\ ~reprocess_analyzed_videos /\ video' \in processed_videos) =>
              /\ pc' = "done"
              /\ attempts' = 0]_vars

\* C20: process_single_video never raises to its caller: a call that ran into
\* a failure of the analysis or of the compilation (a non-zero exit of the
\* media tool included) has it caught and logged and returns None.
C20_NeverRaises ==
    pc = "done" =>
        /\ result \notin {Raised(failure) : failure \in Failures}
        /\ exception # "None" => (result = NoneValue /\ error_logged)

\* the media tool failed after a successful analysis, and the call returned None
C20_Witness ==
    /\ pc = "done"
    /\ exception = "CalledProcessError"
    /\ compile_input # NoneValue
    /\ result = NoneValue
    /\ error_logged

\* C21: when short creation is enabled and fails after a successful
\* compilation, by returning nothing or by raising, the call still returns the
\* path of the compilation and the video counts as processed.
C21_ShortFailureKeepsCompilation ==
    (pc = "done" /\ make_short /\ short \in {"None"} \cup ShortRaises) =>
        /\ result = CompilationOf(video)
        /\ video \in processed_videos
        /\ ~error_logged

\* the short creation raised and the call returned the compilation
C21_Witness ==
    /\ pc = "done"
    /\ make_short
    /\ short \in ShortRaises
    /\ result = CompilationOf(video)
    /\ video \in processed_videos

\* the short creation returned nothing and the call returned the compilation
C21_WitnessNone ==
    /\ pc = "done"
    /\ make_short
    /\ short = "None"
    /\ result = CompilationOf(video)

\* C22: every analysis attempt, whether it found highlights, found none or
\* failed, leaves exactly one row in the token log: after the first call of a
\* watch session the log holds as many rows as analyze_video was called.
C22_OneRowPerAttempt ==
    (pc = "done" /\ runs = 1 /\ watch_mode_csv_path) =>
        Len(watch_mode_token_data) = attempts

\* C24: every segment handed to the merger and to create_compilation ends
\* after it starts: a highlight with end <= start is rejected before the merge.
C24_SegmentsEndAfterStart ==
    /\ compile_input # NoneValue =>
          \A i \in DOMAIN compile_input : WellFormed(compile_input[i])
    /\ segments # NoneValue =>
          \A i \in DOMAIN segments : WellFormed(segments[i])

\* C25: the attempt made at retry count k is made with the base temperature
\* plus k steps: an attempt that got a response got it from a request generated
\* at that temperature, and one retry delay has been waited for each retry.
C25_TemperatureEscalation ==
    /\ (attempts > 0 /\ last_attempt.outcome \in {"empty", "highlights"}) =>
          GenerationTemperature(last_attempt.temperature) =
              BaseTemperature + last_attempt.n * TemperatureStep
    /\ sleeps = retry_count

\* C29: when the compilation fails for a video whose analysis returned
\* highlights, the highlights stay in the store and the call does not add the
\* video to processed_videos; with reprocessing disabled a later call for the
\* video is skipped by the dedup check without an analysis, and no call for
\* the video ever returns a compilation.
C29_FailedCompilationNeverRetried ==
    /\ [](compile_failed \subseteq kills_json)
    /\ []((~reprocess_analyzed_videos /\ pc = "done" /\ video \in compile_failed)
             => result = NoneValue)
    /\ [][(pc = "compile" /\ pc' = "except")
             => (processed_videos' = processed_videos /\ video \in kills_json')]_vars
    /\ [][(Called /\ ~reprocess_analyzed_videos /\ video' \in compile_failed)
             => (pc' = "done" /\ attempts' = 0 /\ result' = NoneValue)]_vars

\* the second call for a video whose compilation failed has been skipped
C29_Witness ==
    /\ ~reprocess_analyzed_videos
    /\ runs = 2
    /\ video \in compile_failed
    /\ pc = "done"
    /\ attempts = 0
    /\ result = NoneValue

----------------------------------------------------------------------------
(* analyze_video: the read-modify-write of the highlights store *)

\* the analyze_video calls that can be in flight at once
MaxAnalyses == 3

Analyses == 1..MaxAnalyses

\* the threads that run an event loop: the thread of a batch command, whose
\* gather runs every video of the batch on one loop, and in watch mode the
\* observer thread and each retry_after_delay thread, which call asyncio.run
\* on their own
MaxThreads == 2

Threads == 1..MaxThreads

\* the highlights one analysis appends to the store
HighlightsOf(analysis) == {<<source_video[analysis], analysis>>}

\* the code between two awaits runs without another coroutine or call of the
\* same thread in between: lines 358-383 hold no await
OwnThreadInStore(analysis) ==
    \E other \in Analyses \ {analysis} :
        thread[other] = thread[analysis] /\ store_pc[other] = "read"

\* analyze_video(video_path, output_file) is called on some thread
AnalyzeVideo(analysis) ==
    /\ store_pc[analysis] = "idle"
    /\ \E video_path \in Videos, on_thread \in Threads :
          /\ source_video' = [source_video EXCEPT ![analysis] = video_path]
          /\ thread' = [thread EXCEPT ![analysis] = on_thread]
    /\ store_pc' = [store_pc EXCEPT ![analysis] = "analyzing"]
    /\ UNCHANGED <<output_file, existing_data, processed_highlights>>
    /\ UNCHANGED <<mergeVars, queueVars, procVars, monitorVars, watchVars, batchVars, compVars, detectVars, loopVars, handlerVars>>

\* the upload or the API call fails: analyze_video raises before the store is opened
AnalysisFails(analysis) ==
    /\ store_pc[analysis] = "analyzing"
    /\ processed_highlights' = [processed_highlights EXCEPT ![analysis] = "raise"]
    /\ store_pc' = [store_pc EXCEPT ![analysis] = "done"]
    /\ UNCHANGED <<output_file, existing_data, source_video, thread>>
    /\ UNCHANGED <<mergeVars, queueVars, procVars, monitorVars, watchVars, batchVars, compVars, detectVars, loopVars, handlerVars>>

\* the response is parsed and `existing_data = json.load(f)` reads the store
ReadExistingData(analysis) ==
    /\ store_pc[analysis] = "analyzing"
    /\ ~OwnThreadInStore(analysis)
    /\ \E found \in {"highlights", "empty"} :
          processed_highlights' = [processed_highlights EXCEPT ![analysis] = found]
    /\ existing_data' = [existing_data EXCEPT ![analysis] = output_file]
    /\ store_pc' = [store_pc EXCEPT ![analysis] = "read"]
    /\ UNCHANGED <<output_file, source_video, thread>>
    /\ UNCHANGED <<mergeVars, queueVars, procVars, monitorVars, watchVars, batchVars, compVars, detectVars, loopVars, handlerVars>>

\* existing_data["highlights"].extend(processed_highlights), then
\* json.dump(existing_data, f) rewrites the whole store
WriteUpdatedData(analysis) ==
    /\ store_pc[analysis] = "read"
    /\ output_file' =
          existing_data[analysis] \cup
             (IF processed_highlights[analysis] = "highlights"
              THEN HighlightsOf(analysis) ELSE {})
    /\ store_pc' = [store_pc EXCEPT ![analysis] = "done"]
    /\ UNCHANGED <<existing_data, source_video, thread, processed_highlights>>
    /\ UNCHANGED <<mergeVars, queueVars, procVars, monitorVars, watchVars, batchVars, compVars, detectVars, loopVars, handlerVars>>

StoreInit ==
    /\ MergeIdle
    /\ QueueIdle
    /\ ProcIdle
    /\ MonitorIdle
    /\ WatchIdle
    /\ BatchIdle
    /\ CompIdle
    /\ DetectIdle
    /\ LoopIdle
    /\ HandlerIdle
    /\ output_file = {}
    /\ existing_data = [analysis \in Analyses |-> {}]
    /\ store_pc = [analysis \in Analyses |-> "idle"]
    /\ source_video = [analysis \in Analyses |-> ""]
    /\ thread = [analysis \in Analyses |-> 1]
    /\ processed_highlights = [analysis \in Analyses |-> "none"]

StoreNext ==
    \E analysis \in Analyses :
        \/ AnalyzeVideo(analysis)
        \/ AnalysisFails(analysis)
        \/ ReadExistingData(analysis)
        \/ WriteUpdatedData(analysis)

SpecStore == StoreInit /\ [][StoreNext]_vars

\* C23: the store has one writer at a time: no read-modify-write of one
\* analysis overlaps that of another, and the store holds the highlights of
\* every analysis that found some and has returned.
C23_SingleWriter ==
    /\ Cardinality({analysis \in Analyses : store_pc[analysis] = "read"}) <= 1
    /\ \A analysis \in Analyses :
          (store_pc[analysis] = "done" /\ processed_highlights[analysis] = "highlights")
              => HighlightsOf(analysis) \subseteq output_file

----------------------------------------------------------------------------
(* VideoProcessor.create_compilation *)

\* the longest segment list handed to create_compilation
MaxSegments == 3

\* create_compilation calls on one VideoProcessor
MaxCompilations == 2

\* the segments a list is made of; create_compilation takes the bounds as they come
Segments == {H(0, 10), H(15, 25), H(20, 10)}

SegmentLists == SeqsUpTo(Segments, MaxSegments)

\* variant: the end of the segment is passed as its duration
DurationIsEnd(start_time, end_time) == end_time

\* `duration = end_time - start_time`
Duration(start_time, end_time) == end_time - start_time

\* "[0:v]trim=start=..:duration=..,setpts=PTS-STARTPTS[v{i}]" and its audio
\* twin "[0:a]atrim=..,asetpts=PTS-STARTPTS[a{i}]" for segment i, counted from 0
TrimFilter(stream, i, highlight) ==
    [input    |-> IF stream = "v" THEN "0:v" ELSE "0:a",
     filter   |-> IF stream = "v" THEN "trim" ELSE "atrim",
     start    |-> highlight.timestamp_start_seconds,
     duration |-> Duration(highlight.timestamp_start_seconds,
                           highlight.timestamp_end_seconds),
     pts      |-> IF stream = "v" THEN "setpts=PTS-STARTPTS" ELSE "asetpts=PTS-STARTPTS",
     output   |-> <<stream, i>>]

\* the loop over enumerate(highlights): the video trim, then the audio trim, of
\* each segment in turn
TrimFilters(highlight_list) ==
    [k \in 1..(2 * Len(highlight_list)) |->
        TrimFilter(IF k % 2 = 1 THEN "v" ELSE "a", (k - 1) \div 2,
                   highlight_list[(k + 1) \div 2])]

\* "[v0][v1]..concat=n=N:v=1:a=0[outv]", and the same for audio
ConcatFilter(stream, highlight_list) ==
    [inputs |-> [k \in 1..Len(highlight_list) |-> <<stream, k - 1>>],
     n      |-> Len(highlight_list),
     v      |-> IF stream = "v" THEN 1 ELSE 0,
     a      |-> IF stream = "v" THEN 0 ELSE 1,
     output |-> IF stream = "v" THEN "outv" ELSE "outa"]

\* ['ffmpeg', '-hide_banner', '-encoders']
EncodersCommand ==
    [tool |-> "ffmpeg", mode |-> "encoders", trims |-> <<>>, concats |-> <<>>,
     maps |-> <<>>, encoder |-> ""]

\* ['ffmpeg', '-i', video_path, '-filter_complex', ..., '-map', '[outv]', '-map', '[outa]', ...]
CompilationCommand(highlight_list, use_nvenc) ==
    [tool    |-> "ffmpeg", mode |-> "filter_complex",
     trims   |-> TrimFilters(highlight_list),
     concats |-> <<ConcatFilter("v", highlight_list), ConcatFilter("a", highlight_list)>>,
     maps    |-> <<"outv", "outa">>,
     encoder |-> IF use_nvenc THEN "h264_nvenc" ELSE "libx264"]

\* create_compilation(video_path, highlights, output_filename) on an empty list
CreateCompilationOfNothing ==
    /\ compilations < MaxCompilations
    /\ compilations' = compilations + 1
    /\ cc_highlights' = <<>>
    /\ commands' = <<>>
    /\ cc_result' = "ValueError"
    /\ UNCHANGED nvenc_available
    /\ UNCHANGED <<mergeVars, queueVars, procVars, monitorVars, watchVars, batchVars, storeVars, detectVars, loopVars, handlerVars>>

\* create_compilation on one or more segments: check_nvenc_availability, which
\* lists the encoders of the media tool the first time it is asked, then the
\* one command that trims and concatenates
CreateCompilation ==
    /\ compilations < MaxCompilations
    /\ compilations' = compilations + 1
    /\ \E highlight_list \in SegmentLists \ {<<>>},
          listed \in {"True", "False"},
          exit \in {"path", "CalledProcessError"} :
          /\ cc_highlights' = highlight_list
          /\ nvenc_available' = IF nvenc_available = "None" THEN listed ELSE nvenc_available
          /\ commands' =
                (IF nvenc_available = "None" THEN <<EncodersCommand>> ELSE <<>>) \o
                <<CompilationCommand(highlight_list, nvenc_available' = "True")>>
          /\ cc_result' = exit
    /\ UNCHANGED <<mergeVars, queueVars, procVars, monitorVars, watchVars, batchVars, storeVars, detectVars, loopVars, handlerVars>>

CompInit ==
    /\ MergeIdle
    /\ QueueIdle
    /\ ProcIdle
    /\ MonitorIdle
    /\ WatchIdle
    /\ BatchIdle
    /\ StoreIdle
    /\ DetectIdle
    /\ LoopIdle
    /\ HandlerIdle
    /\ nvenc_available = "None"
    /\ cc_highlights = <<>>
    /\ commands = <<>>
    /\ cc_result = "None"
    /\ compilations = 0

CompNext ==
    \/ CreateCompilationOfNothing
    \/ CreateCompilation

SpecComp == CompInit /\ [][CompNext]_vars

\* the segment list was trimmed and concatenated by this command: per segment
\* one video and one audio trim from the segment's start for end - start
\* seconds, each reset to timestamp zero, and the trims of each stream
\* concatenated in the order of the list into one stream
IsSinglePassOver(command, highlight_list) ==
    /\ command.mode = "filter_complex"
    /\ Len(command.trims) = 2 * Len(highlight_list)
    /\ \A i \in 1..Len(highlight_list) :
          LET video_trim == command.trims[2 * i - 1]
              audio_trim == command.trims[2 * i]
          IN  /\ video_trim.input = "0:v" /\ video_trim.filter = "trim"
              /\ audio_trim.input = "0:a" /\ audio_trim.filter = "atrim"
              /\ video_trim.start = highlight_list[i].timestamp_start_seconds
              /\ audio_trim.start = highlight_list[i].timestamp_start_seconds
              /\ video_trim.duration = highlight_list[i].timestamp_end_seconds
                                          - highlight_list[i].timestamp_start_seconds
              /\ audio_trim.duration = video_trim.duration
              /\ video_trim.pts = "setpts=PTS-STARTPTS"
              /\ audio_trim.pts = "asetpts=PTS-STARTPTS"
              /\ command.concats[1].inputs[i] = video_trim.output
              /\ command.concats[2].inputs[i] = audio_trim.output
    /\ \A i, j \in 1..Len(command.trims) :
          command.trims[i].output = command.trims[j].output => i = j
    /\ Len(command.concats) = 2
    /\ \A c \in 1..2 :
          /\ Len(command.concats[c].inputs) = Len(highlight_list)
          /\ command.concats[c].n = Len(highlight_list)
    /\ command.concats[1].v = 1 /\ command.concats[1].a = 0
    /\ command.concats[2].v = 0 /\ command.concats[2].a = 1
    /\ command.maps = <<command.concats[1].output, command.concats[2].output>>

\* C26 as stated: a call with one or more segments invokes the media tool
\* exactly once, with that one command trimming and concatenating the list.
C26_ExactlyOneInvocation ==
    cc_highlights # <<>> =>
        /\ Len(commands) = 1
        /\ IsSinglePassOver(commands[1], cc_highlights)

\* C26, amended: a call with one or more segments runs exactly one command
\* that reads the source, the last of the call, and it trims and concatenates
\* the list in one pass; the only other command a call can run is the listing
\* of the tool's encoders, which the first call on a VideoProcessor runs first.
C26_OnePassAfterEncoderCheck ==
    cc_highlights # <<>> =>
        /\ Len(commands) \in {1, 2}
        /\ compilations = 1 => Len(commands) = 2
        /\ IsSinglePassOver(commands[Len(commands)], cc_highlights)
        /\ Len(commands) = 2 => commands[1] = EncodersCommand

\* a first call with two segments: the encoder listing, then the one pass
C26_Witness ==
    /\ Len(cc_highlights) >= 2
    /\ cc_result = "path"
    /\ Len(commands) = 2
    /\ commands[1].mode = "encoders"
    /\ commands[2].mode = "filter_complex"

\* a later call: the one pass alone
C26_WitnessLaterCall ==
    /\ compilations = 2
    /\ Len(cc_highlights) = MaxSegments
    /\ Len(commands) = 1

----------------------------------------------------------------------------
(* GameProcessMonitor.detect_active_game over the listing of the OS *)

\* the longest process listing
MaxProcesses == 3

\* the names a listing is made of: the known games, one of them as the OS may
\* spell it, and a process that is no game
ProcessNames == {"cs2.exe", "Overwatch.exe", "overwatch.exe", "explorer.exe"}

ProcessLists == SeqsUpTo(ProcessNames, MaxProcesses)

\* proc.info['name'].lower()
Lower(name) == IF name = "Overwatch.exe" THEN "overwatch.exe" ELSE name

\* get_running_game_processes(): the keys of running_games after the loop over
\* the listing; the key is the name of GAME_PROCESS_MAP, not the one listed
RECURSIVE get_running_game_processes(_)
get_running_game_processes(listing) ==
    IF listing = <<>> THEN {}
    ELSE LET proc_name == Lower(listing[Len(listing)])
             before == get_running_game_processes(SubSeq(listing, 1, Len(listing) - 1))
         IN  IF proc_name \in GameProcesses THEN before \cup {proc_name} ELSE before

\* the OS lists other processes, or the same in another order
ProcessListChanges ==
    /\ process_list' \in ProcessLists
    /\ scan_completed' = FALSE
    /\ scanned_games' = {}
    /\ active_game' = "unset"
    /\ UNCHANGED <<mergeVars, queueVars, procVars, monitorVars, watchVars, batchVars, storeVars, compVars, loopVars, handlerVars>>

\* detect_active_game(): the listing is scanned to its end, or up to the entry
\* at which the scan raises ("Error scanning processes" returns what was
\* collected so far), and the table is searched in its own order
DetectActiveGame ==
    /\ active_game = "unset"
    /\ \E scanned \in 0..Len(process_list) :
          LET running_games == get_running_game_processes(SubSeq(process_list, 1, scanned))
          IN  /\ scan_completed' = (scanned = Len(process_list))
              /\ scanned_games' = running_games
              /\ active_game' = detect_active_game(running_games)
    /\ UNCHANGED process_list
    /\ UNCHANGED <<mergeVars, queueVars, procVars, monitorVars, watchVars, batchVars, storeVars, compVars, loopVars, handlerVars>>

DetectInit ==
    /\ MergeIdle
    /\ QueueIdle
    /\ ProcIdle
    /\ MonitorIdle
    /\ WatchIdle
    /\ BatchIdle
    /\ StoreIdle
    /\ CompIdle
    /\ LoopIdle
    /\ HandlerIdle
    /\ process_list \in ProcessLists
    /\ scan_completed = FALSE
    /\ scanned_games = {}
    /\ active_game = "unset"

DetectNext ==
    \/ ProcessListChanges
    \/ DetectActiveGame

SpecDetect == DetectInit /\ [][DetectNext]_vars

\* the known games of a listing, wherever they stand in it
ListedGames ==
    {game_process \in GameProcesses :
        \E i \in 1..Len(process_list) : Lower(process_list[i]) = game_process}

\* the game type of the first entry of the table among these processes
FirstInTable(games) ==
    IF \E k \in 1..Len(GAME_PROCESS_MAP) : GAME_PROCESS_MAP[k].process \in games
    THEN LET k == CHOOSE k \in 1..Len(GAME_PROCESS_MAP) :
                     /\ GAME_PROCESS_MAP[k].process \in games
                     /\ \A j \in 1..Len(GAME_PROCESS_MAP) :
                           GAME_PROCESS_MAP[j].process \in games => k <= j
         IN  GAME_PROCESS_MAP[k].game_type
    ELSE NoGame

C27_WitnessNone ==
    /\ scan_completed
    /\ process_list # <<>>
    /\ ListedGames = {}
    /\ active_game = NoGame

----------------------------------------------------------------------------
(* GameProcessMonitor: start_monitoring, stop_monitoring and the monitor thread *)

\* monitor threads one monitor can start
MaxLoopThreads == 2

LoopThreads == 1..MaxLoopThreads

\* start_monitoring calls followed
MaxStartCalls == 3

\* the threads whose monitor_loop has not returned
LiveLoops == {t \in LoopThreads : loop_pc[t] \in {"waiting", "polling", "scanned"}}

\* what a loop does while stopped is kept
AfterStop(done) == IF stopped THEN after_stop \cup {done} ELSE after_stop

\* start_monitoring() while monitoring: the warning, and nothing else
StartMonitoringAgain ==
    /\ caller_pc = "ready"
    /\ monitoring
    /\ start_calls < MaxStartCalls
    /\ start_calls' = start_calls + 1
    /\ UNCHANGED <<stop_event, monitor_thread, loop_pc, loop_detected, caller_pc,
                   stopped, after_stop>>
    /\ UNCHANGED <<mergeVars, queueVars, procVars, monitorVars, watchVars, batchVars, storeVars, compVars, detectVars, handlerVars>>

\* start_monitoring(): the flag, stop_event.clear(), the initial check and a
\* new daemon thread running monitor_loop
StartMonitoringThread ==
    /\ caller_pc = "ready"
    /\ ~monitoring
    /\ start_calls < MaxStartCalls
    /\ Len(polls) < MaxPolls
    /\ start_calls' = start_calls + 1
    /\ monitoring' = TRUE
    /\ stop_event' = FALSE
    /\ stopped' = FALSE
    /\ LET initial_game_type == detect_active_game(running)
       IN  /\ polls' = Append(polls, initial_game_type)
           /\ current_game_type' = GameTypeAfter(initial_game_type)
           /\ config_game_type' = ConfigGameTypeAfter(initial_game_type)
    /\ \E t \in LoopThreads :
          /\ loop_pc[t] = "unstarted"
          /\ \A earlier \in 1..(t - 1) : loop_pc[earlier] # "unstarted"
          /\ loop_pc' = [loop_pc EXCEPT ![t] = "waiting"]
          /\ monitor_thread' = t
    /\ UNCHANGED <<loop_detected, caller_pc, after_stop>>
    /\ UNCHANGED <<running, detected_processes, monitor_log, fired>>
    /\ UNCHANGED <<mergeVars, queueVars, procVars, watchVars, batchVars, storeVars, compVars, detectVars, handlerVars>>

\* stop_event.wait(check_interval) returns False: the interval has passed with
\* the event clear, and the body of the loop is entered
LoopWakes(t) ==
    /\ loop_pc[t] = "waiting"
    /\ ~stop_event
    /\ loop_pc' = [loop_pc EXCEPT ![t] = "polling"]
    /\ UNCHANGED <<stop_event, monitor_thread, loop_detected, caller_pc, start_calls,
                   stopped, after_stop>>
    /\ UNCHANGED <<mergeVars, queueVars, procVars, monitorVars, watchVars, batchVars, storeVars, compVars, detectVars, handlerVars>>

\* stop_event.wait(check_interval) returns True: monitor_loop returns
LoopExits(t) ==
    /\ loop_pc[t] = "waiting"
    /\ stop_event
    /\ loop_pc' = [loop_pc EXCEPT ![t] = "exited"]
    /\ UNCHANGED <<stop_event, monitor_thread, loop_detected, caller_pc, start_calls,
                   stopped, after_stop>>
    /\ UNCHANGED <<mergeVars, queueVars, procVars, monitorVars, watchVars, batchVars, storeVars, compVars, detectVars, handlerVars>>

\* the body of the loop up to `self.detected_processes = current_processes`:
\* detect_active_game() and the second scan of the processes
LoopScans(t) ==
    /\ loop_pc[t] = "polling"
    /\ Len(polls) < MaxPolls
    /\ \E running_games \in SUBSET GameProcesses :
          /\ loop_detected' = [loop_detected EXCEPT ![t] = detect_active_game(running)]
          /\ polls' = Append(polls, detect_active_game(running))
          /\ running' = running_games
          /\ detected_processes' = running_games
    /\ loop_pc' = [loop_pc EXCEPT ![t] = "scanned"]
    /\ after_stop' = AfterStop("poll")
    /\ UNCHANGED <<stop_event, monitor_thread, caller_pc, start_calls, stopped>>
    /\ UNCHANGED <<monitoring, current_game_type, config_game_type, monitor_log, fired>>
    /\ UNCHANGED <<mergeVars, queueVars, procVars, watchVars, batchVars, storeVars, compVars, detectVars, handlerVars>>

\* the rest of the body: `if detected_game_type: self.update_game_type(..)`,
\* then back to the wait
LoopUpdates(t) ==
    /\ loop_pc[t] = "scanned"
    /\ current_game_type' = GameTypeAfter(loop_detected[t])
    /\ config_game_type' = ConfigGameTypeAfter(loop_detected[t])
    /\ after_stop' =
          IF loop_detected[t] # NoGame /\ update_game_type_changes(loop_detected[t])
          THEN AfterStop("update") ELSE after_stop
    /\ loop_pc' = [loop_pc EXCEPT ![t] = "waiting"]
    /\ UNCHANGED <<stop_event, monitor_thread, loop_detected, caller_pc, start_calls, stopped>>
    /\ UNCHANGED <<running, monitoring, detected_processes, polls, monitor_log, fired>>
    /\ UNCHANGED <<mergeVars, queueVars, procVars, watchVars, batchVars, storeVars, compVars, detectVars, handlerVars>>

\* stop_monitoring() up to the join: the flag and stop_event.set()
StopMonitoringSets ==
    /\ caller_pc = "ready"
    /\ monitoring
    /\ monitoring' = FALSE
    /\ stop_event' = TRUE
    /\ caller_pc' = "joining"
    /\ UNCHANGED <<monitor_thread, loop_pc, loop_detected, start_calls, stopped, after_stop>>
    /\ UNCHANGED <<running, current_game_type, detected_processes, config_game_type,
                   polls, monitor_log, fired>>
    /\ UNCHANGED <<mergeVars, queueVars, procVars, watchVars, batchVars, storeVars, compVars, detectVars, handlerVars>>

\* join(timeout=2.0) returns, because the thread has ended or because the two
\* seconds have passed with the thread still inside the body of its loop; then
\* `self.monitor_thread = None` and stop_monitoring returns
StopMonitoringReturns ==
    /\ caller_pc = "joining"
    /\ loop_pc[monitor_thread] \in {"exited", "polling", "scanned"}
    /\ monitor_thread' = 0
    /\ caller_pc' = "ready"
    /\ stopped' = TRUE
    /\ UNCHANGED <<stop_event, loop_pc, loop_detected, start_calls, after_stop>>
    /\ UNCHANGED <<mergeVars, queueVars, procVars, monitorVars, watchVars, batchVars, storeVars, compVars, detectVars, handlerVars>>

\* a GameProcessMonitor as constructed, on a host with any of the games running
LoopInit ==
    /\ MergeIdle
    /\ QueueIdle
    /\ ProcIdle
    /\ WatchIdle
    /\ BatchIdle
    /\ StoreIdle
    /\ CompIdle
    /\ DetectIdle
    /\ HandlerIdle
    /\ running \in SUBSET GameProcesses
    /\ monitoring = FALSE
    /\ current_game_type = NoGame
    /\ detected_processes = {}
    /\ config_game_type = DefaultGameType
    /\ polls = <<>>
    /\ monitor_log = <<>>
    /\ fired = <<>>
    /\ stop_event = FALSE
    /\ monitor_thread = 0
    /\ loop_pc = [t \in LoopThreads |-> "unstarted"]
    /\ loop_detected = [t \in LoopThreads |-> NoGame]
    /\ caller_pc = "ready"
    /\ start_calls = 0
    /\ stopped = FALSE
    /\ after_stop = {}

LoopNext ==
    \/ StartMonitoringAgain
    \/ StartMonitoringThread
    \/ StopMonitoringSets
    \/ StopMonitoringReturns
    \/ \E t \in LoopThreads :
          \/ LoopWakes(t)
          \/ LoopExits(t)
          \/ LoopScans(t)
          \/ LoopUpdates(t)

SpecLoop == LoopInit /\ [][LoopNext]_vars

\* C28: the monitor loop is never duplicated and stops cleanly: at most one
\* loop is alive, and once stop_monitoring has returned the loop polls no more
\* and updates neither the current mode nor the shared configuration.
C28_StopsCleanly ==
    /\ Cardinality(LiveLoops) <= 1
    /\ after_stop = {}

----------------------------------------------------------------------------
(* VideoFileHandler._handle_video_file and is_file_stable *)

\* the threads that run _handle_video_file: the observer thread, which takes
\* the events one after the other, and the retry_after_delay threads
MaxHandlerThreads == 3

HandlerThreads == 1..MaxHandlerThreads

ObserverThread == 1

RetryThreads == HandlerThreads \ {ObserverThread}

\* times a file is written to
MaxMtime == 2

\* events that can wait for the observer thread
MaxEvents == 2

\* the new video files of the watched directory
WatchedPaths == {"v1.mp4", "v2.mp4"}

\* self.last_modified has no key for the path
NoMtime == -1

\* the threads inside process_callback(file_path)
InCallback(file_path) ==
    {t \in HandlerThreads : handler_pc[t] = "callback" /\ handler_path[t] = file_path}

\* the recording software writes to the file: a new mtime and an event
FileModified(file_path) ==
    /\ mtime[file_path] < MaxMtime
    /\ Len(events) < MaxEvents
    /\ mtime' = [mtime EXCEPT ![file_path] = @ + 1]
    /\ settled' = [settled EXCEPT ![file_path] = FALSE]
    /\ events' = Append(events, file_path)
    /\ UNCHANGED <<last_modified, processing_files, pending_files, handler_pc,
                   handler_path, current_mtime, last_mtime>>
    /\ UNCHANGED <<mergeVars, queueVars, procVars, monitorVars, watchVars, batchVars, storeVars, compVars, detectVars, loopVars>>

\* stability_window seconds pass without a write to the file
TimePasses(file_path) ==
    /\ mtime[file_path] > 0
    /\ ~settled[file_path]
    /\ settled' = [settled EXCEPT ![file_path] = TRUE]
    /\ UNCHANGED <<mtime, events, last_modified, processing_files, pending_files,
                   handler_pc, handler_path, current_mtime, last_mtime>>
    /\ UNCHANGED <<mergeVars, queueVars, procVars, monitorVars, watchVars, batchVars, storeVars, compVars, detectVars, loopVars>>

\* _handle_video_file(file_path) up to is_file_stable: return if the path is
\* in processing_files or in pending_files
Enter(t, file_path) ==
    /\ handler_path' = [handler_path EXCEPT ![t] = file_path]
    /\ handler_pc' = [handler_pc EXCEPT ![t] =
                         IF file_path \in processing_files \/ file_path \in pending_files
                         THEN "idle" ELSE "checking"]

\* on_created / on_modified: the observer thread takes the next event
OnEvent ==
    /\ handler_pc[ObserverThread] = "idle"
    /\ events # <<>>
    /\ events' = Tail(events)
    /\ Enter(ObserverThread, Head(events))
    /\ UNCHANGED <<mtime, settled, last_modified, processing_files, pending_files,
                   current_mtime, last_mtime>>
    /\ UNCHANGED <<mergeVars, queueVars, procVars, monitorVars, watchVars, batchVars, storeVars, compVars, detectVars, loopVars>>

\* retry_after_delay: after time.sleep(3) the path leaves pending_files and
\* _handle_video_file is called again, on the retry thread, where it returns
\* if the path is in processing_files
RetryAfterDelay(t) ==
    /\ handler_pc[t] = "sleeping"
    /\ pending_files' = pending_files \ {handler_path[t]}
    /\ UNCHANGED handler_path
    /\ handler_pc' = [handler_pc EXCEPT ![t] =
                         IF handler_path[t] \in processing_files THEN "idle" ELSE "checking"]
    /\ UNCHANGED <<mtime, settled, events, last_modified, processing_files,
                   current_mtime, last_mtime>>
    /\ UNCHANGED <<mergeVars, queueVars, procVars, monitorVars, watchVars, batchVars, storeVars, compVars, detectVars, loopVars>>

\* is_file_stable, lines 42-43: current_mtime and last_mtime are read
ReadMtimes(t) ==
    /\ handler_pc[t] = "checking"
    /\ current_mtime' = [current_mtime EXCEPT ![t] = mtime[handler_path[t]]]
    /\ last_mtime' = [last_mtime EXCEPT ![t] =
                         IF last_modified[handler_path[t]] = NoMtime
                         THEN 0 ELSE last_modified[handler_path[t]]]
    /\ handler_pc' = [handler_pc EXCEPT ![t] = "read"]
    /\ UNCHANGED <<mtime, settled, events, last_modified, processing_files,
                   pending_files, handler_path>>
    /\ UNCHANGED <<mergeVars, queueVars, procVars, monitorVars, watchVars, batchVars, storeVars, compVars, detectVars, loopVars>>

\* is_file_stable, lines 46-55: a path seen for the first time, or modified
\* since the last check, has its mtime recorded and is not stable
CompareMtimes(t) ==
    /\ handler_pc[t] = "read"
    /\ IF \/ last_modified[handler_path[t]] = NoMtime
          \/ current_mtime[t] # last_mtime[t]
       THEN /\ last_modified' = [last_modified EXCEPT ![handler_path[t]] = current_mtime[t]]
            /\ handler_pc' = [handler_pc EXCEPT ![t] = "unstable"]
       ELSE /\ handler_pc' = [handler_pc EXCEPT ![t] = "compared"]
            /\ UNCHANGED last_modified
    /\ UNCHANGED <<mtime, settled, events, processing_files, pending_files,
                   handler_path, current_mtime, last_mtime>>
    /\ UNCHANGED <<mergeVars, queueVars, procVars, monitorVars, watchVars, batchVars, storeVars, compVars, detectVars, loopVars>>

\* `time.time() - current_mtime >= stability_window`: true once the window has
\* passed since the latest write, false before it has passed since the write
\* that was read, and either when the file was written again since the read
WindowPassed(file_path, read_mtime) ==
    IF settled[file_path] THEN {TRUE}
    ELSE IF read_mtime < mtime[file_path] THEN {TRUE, FALSE}
    ELSE {FALSE}

\* is_file_stable, lines 58-68: stable when stability_window seconds have
\* passed since current_mtime; the key of a stable path is popped
TestWindow(t) ==
    /\ handler_pc[t] = "compared"
    /\ \E is_stable \in WindowPassed(handler_path[t], current_mtime[t]) :
          IF is_stable
          THEN /\ last_modified' = [last_modified EXCEPT ![handler_path[t]] = NoMtime]
               /\ handler_pc' = [handler_pc EXCEPT ![t] = "stable"]
          ELSE /\ handler_pc' = [handler_pc EXCEPT ![t] = "unstable"]
               /\ UNCHANGED last_modified
    /\ UNCHANGED <<mtime, settled, events, processing_files, pending_files,
                   handler_path, current_mtime, last_mtime>>
    /\ UNCHANGED <<mergeVars, queueVars, procVars, monitorVars, watchVars, batchVars, storeVars, compVars, detectVars, loopVars>>

\* not stable: the path joins pending_files and a retry thread is started
ScheduleRetry(t) ==
    /\ handler_pc[t] = "unstable"
    /\ pending_files' = pending_files \cup {handler_path[t]}
    /\ \E retry \in RetryThreads :
          /\ retry # t
          /\ handler_pc[retry] = "idle"
          /\ handler_pc' = [handler_pc EXCEPT ![t] = "idle", ![retry] = "sleeping"]
          /\ handler_path' = [handler_path EXCEPT ![retry] = handler_path[t]]
    /\ UNCHANGED <<mtime, settled, events, last_modified, processing_files,
                   current_mtime, last_mtime>>
    /\ UNCHANGED <<mergeVars, queueVars, procVars, monitorVars, watchVars, batchVars, storeVars, compVars, detectVars, loopVars>>

\* stable: the path joins processing_files and process_callback is called
CallProcessCallback(t) ==
    /\ handler_pc[t] = "stable"
    /\ processing_files' = processing_files \cup {handler_path[t]}
    /\ handler_pc' = [handler_pc EXCEPT ![t] = "callback"]
    /\ UNCHANGED <<mtime, settled, events, last_modified, pending_files,
                   handler_path, current_mtime, last_mtime>>
    /\ UNCHANGED <<mergeVars, queueVars, procVars, monitorVars, watchVars, batchVars, storeVars, compVars, detectVars, loopVars>>

\* process_callback returns or raises: `finally` discards the path from both sets
CallbackReturns(t) ==
    /\ handler_pc[t] = "callback"
    /\ processing_files' = processing_files \ {handler_path[t]}
    /\ pending_files' = pending_files \ {handler_path[t]}
    /\ handler_pc' = [handler_pc EXCEPT ![t] = "idle"]
    /\ UNCHANGED <<mtime, settled, events, last_modified, handler_path,
                   current_mtime, last_mtime>>
    /\ UNCHANGED <<mergeVars, queueVars, procVars, monitorVars, watchVars, batchVars, storeVars, compVars, detectVars, loopVars>>

\* a VideoFileHandler as constructed, before the first file appears
HandlerInit ==
    /\ MergeIdle
    /\ QueueIdle
    /\ ProcIdle
    /\ MonitorIdle
    /\ WatchIdle
    /\ BatchIdle
    /\ StoreIdle
    /\ CompIdle
    /\ DetectIdle
    /\ LoopIdle
    /\ mtime = [file_path \in WatchedPaths |-> 0]
    /\ settled = [file_path \in WatchedPaths |-> FALSE]
    /\ events = <<>>
    /\ last_modified = [file_path \in WatchedPaths |-> NoMtime]
    /\ processing_files = {}
    /\ pending_files = {}
    /\ handler_pc = [t \in HandlerThreads |-> "idle"]
    /\ handler_path = [t \in HandlerThreads |-> ""]
    /\ current_mtime = [t \in HandlerThreads |-> 0]
    /\ last_mtime = [t \in HandlerThreads |-> 0]

HandlerNext ==
    \/ \E file_path \in WatchedPaths :
          \/ FileModified(file_path)
          \/ TimePasses(file_path)
    \/ OnEvent
    \/ \E t \in HandlerThreads :
          \/ RetryAfterDelay(t)
          \/ ReadMtimes(t)
          \/ CompareMtimes(t)
          \/ TestWindow(t)
          \/ ScheduleRetry(t)
          \/ CallProcessCallback(t)
          \/ CallbackReturns(t)

SpecHandler == HandlerInit /\ [][HandlerNext]_vars

\* C30: whatever the interleaving of events and retry threads, no two
\* process_callback calls for one path are in flight at once, and a callback
\* is called only after two checks in a row saw the same modification time.
C30_OneCallbackPerPath ==
    \A file_path \in WatchedPaths :
        /\ Cardinality(InCallback(file_path)) <= 1
        /\ \A t \in InCallback(file_path) :
              current_mtime[t] = last_mtime[t] /\ current_mtime[t] > 0

----------------------------------------------------------------------------
(* Claims about merge_overlapping_clips *)

Covers(h) ==
    {t \in TimePoints : h.timestamp_start_seconds <= t /\ t <= h.timestamp_end_seconds}

Coverage(hs) == UNION {Covers(hs[i]) : i \in 1..Len(hs)}

AllWellFormed(hs) == \A i \in 1..Len(hs) : WellFormed(hs[i])

\* C1: the output of merge_overlapping_clips on well-formed highlights is sorted
\* by start and strictly disjoint: output[i].end < output[i+1].start.
C1_MergeDisjoint ==
    (mpc # "input" /\ AllWellFormed(highlights_in)) =>
        \A i \in 1..(Len(merged) - 1) :
            /\ merged[i].timestamp_start_seconds < merged[i + 1].timestamp_start_seconds
            /\ merged[i].timestamp_end_seconds < merged[i + 1].timestamp_start_seconds

\* a merge of touching ranges has happened
C1_Witness ==
    /\ mpc = "merged"
    /\ AllWellFormed(highlights_in)
    /\ Len(highlights_in) = 3
    /\ Len(merged) = 2
    /\ \E i, j \in 1..3 :
          highlights_in[i].timestamp_end_seconds = highlights_in[j].timestamp_start_seconds

\* C2: the time points covered by the output are exactly those covered by the
\* input: nothing added, nothing lost.
C2_MergeCoverage ==
    (mpc # "input" /\ AllWellFormed(highlights_in)) =>
        Coverage(merged) = Coverage(highlights_in)

\* a clip lying inside an earlier, longer clip has been merged away
C2_Witness ==
    /\ mpc = "merged"
    /\ AllWellFormed(highlights_in)
    /\ Len(merged) < Len(highlights_in)
    /\ \E i, j \in 1..Len(highlights_in) :
          /\ highlights_in[i].timestamp_start_seconds < highlights_in[j].timestamp_start_seconds
          /\ highlights_in[j].timestamp_end_seconds < highlights_in[i].timestamp_end_seconds

\* C3: two highlights that overlap or touch end up in one output segment, and
\* the two examples of the specification merge as stated.
C3_TouchingMerges ==
    mpc # "input" =>
        /\ \A i, j \in 1..Len(highlights_in) :
              LET a == highlights_in[i]
                  b == highlights_in[j]
              IN  (/\ a.timestamp_start_seconds <= b.timestamp_start_seconds
                   /\ b.timestamp_start_seconds <= a.timestamp_end_seconds) =>
                      \E k \in 1..Len(merged) :
                          /\ merged[k].timestamp_start_seconds <= a.timestamp_start_seconds
                          /\ merged[k].timestamp_end_seconds >= a.timestamp_end_seconds
                          /\ merged[k].timestamp_end_seconds >= b.timestamp_end_seconds
        /\ highlights_in = <<H(0, 10), H(10, 20)>> => merged = <<H(0, 20)>>
        /\ highlights_in = <<H(10, 20), H(15, 25), H(30, 40)>> =>
               merged = <<H(10, 25), H(30, 40)>>

C3_Witness ==
    /\ mpc = "merged"
    /\ \/ highlights_in = <<H(0, 10), H(10, 20)>> /\ merged = <<H(0, 20)>>
       \/ /\ highlights_in = <<H(10, 20), H(15, 25), H(30, 40)>>
          /\ merged = <<H(10, 25), H(30, 40)>>

\* C4: merging is idempotent: merging the output again yields the same ranges.
C4_MergeIdempotent ==
    mpc = "remerged" => remerged = merged

\* an input that really was changed by the first merge has been merged twice
C4_Witness ==
    /\ mpc = "remerged"
    /\ Len(highlights_in) = 3
    /\ Len(merged) = 2
    /\ remerged = merged

====
